---- MODULE Spec2Model ----
(***************************************************************************)
(* A model of terraform-provider-regru: the per-record-type strategies     *)
(* (generic A/AAAA/TXT, MX, NS, SRV, CAA, CNAME), their update diffs, the  *)
(* diff-suppress functions and the zone cache of the cached client.        *)
(*                                                                         *)
(* Strings are sequences of byte values, so that sorting (Go compares      *)
(* strings bytewise), fmt.Sprintf keys and the trailing-dot helpers are    *)
(* computed as the code computes them.                                     *)
(***************************************************************************)
EXTENDS Integers, Sequences, FiniteSets, TLC

VARIABLES
    kind,       \* SpecDiff: the strategy whose diff is applied
    oldIn,      \* SpecDiff: the old declared configuration
    newIn,      \* SpecDiff: the new declared configuration
    res,        \* SpecDiff: the diff computed from (oldIn, newIn), or NoRes
    strategy,   \* Spec: the record type of the resource
    d,          \* Spec: schema.ResourceData, [id, cfg]: identifier and stored attributes
    provider,   \* Spec: the DNSRecords the provider holds for the zone
    cache,      \* Spec, SpecCache: globalZoneCache.cache, zone -> ZoneCacheEntry
    now,        \* Spec, SpecCache: the clock, in seconds
    plan,       \* Spec: the change the host has planned and the keys it suppressed
    lastOp,     \* Spec: history of the last handler that ran
    nops,       \* Spec: handlers run so far; SpecConc: calls begun so far
    nedits,     \* Spec: configurations the user has supplied so far
    lastGet,    \* SpecCache: history of the last cache call
    threads,    \* SpecConc: each goroutine's position in its cached-client call
    mu,         \* SpecConc: globalCacheMutex and ZoneCache.mutex, readers and writer
    fatal,      \* SpecConc: the runtime has stopped the process
    imp,        \* SpecImport: the identifier given to Import and what Import set
    wr          \* SpecWrite: the provider's response to a write call and the error made of it

diffVars == <<kind, oldIn, newIn, res>>

lifeVars == <<strategy, d, provider, plan, lastOp, nops, nedits>>

cacheVars == <<cache, now, lastGet>>

concVars == <<threads, mu, fatal>>

vars == <<kind, oldIn, newIn, res, strategy, d, provider, cache, now, plan, lastOp, nops,
          nedits, lastGet, threads, mu, fatal, imp, wr>>

-----------------------------------------------------------------------------
(* Bounds of the model.                                                    *)

\* longest declared list of a generic (A/AAAA/TXT) resource
MaxLen == 3
\* most servers / targets / CAA records declared by one resource
MaxServers == 2

-----------------------------------------------------------------------------
(* Strings.                                                                *)

\* the byte '.'
Dot == 46
\* the byte '_' that joins the fields of a canonical key
Underscore == 95
\* the byte '/' that joins zone and name in a resource identifier
Slash == 47
\* the byte ' ' that separates the fields of a combined content string
Space == 32
\* the byte '"' around a CAA value
Quote == 34

Str1 == <<49>>               \* "1"
Str2 == <<50>>               \* "2"
HostA == <<97>>              \* "a"
HostB == <<98>>              \* "b"
HostC == <<99>>              \* "c"
HostADot == <<97, Dot>>      \* "a."
TagIssue == <<105, 115, 115, 117, 101>>   \* "issue"
TagIodef == <<105, 111, 100, 101, 102>>   \* "iodef"
ValX == <<120>>              \* "x"
ValY == <<121>>              \* "y"

\* Go's < on strings: bytewise lexicographic order
RECURSIVE StrLess(_, _)
StrLess(a, b) ==
    IF a = <<>> THEN b /= <<>>
    ELSE IF b = <<>> THEN FALSE
    ELSE IF a[1] /= b[1] THEN a[1] < b[1]
    ELSE StrLess(Tail(a), Tail(b))

\* fmt.Sprintf("%d", n) for n >= 0
RECURSIVE Itoa(_)
Itoa(n) == IF n < 10 THEN <<48 + n>> ELSE Itoa(n \div 10) \o <<48 + (n % 10)>>

HasSuffixDot(s) == Len(s) > 0 /\ s[Len(s)] = Dot

AddTrailingDot(domain) == IF ~HasSuffixDot(domain) THEN domain \o <<Dot>> ELSE domain

NormalizeDomain(domain) == IF HasSuffixDot(domain) THEN SubSeq(domain, 1, Len(domain) - 1) ELSE domain

NoOpPreprocessor(input) == input

\* sort.Strings
RECURSIVE InsertStr(_, _)
InsertStr(x, s) ==
    IF s = <<>> THEN <<x>>
    ELSE IF StrLess(x, s[1]) THEN <<x>> \o s
    ELSE <<s[1]>> \o InsertStr(x, Tail(s))

RECURSIVE SortStrings(_)
SortStrings(s) == IF s = <<>> THEN <<>> ELSE InsertStr(s[1], SortStrings(Tail(s)))

\* sort.Slice(recs, func(i, j) { return recs[i].String() < recs[j].String() }) on a
\* sequence of <<key string, record>> pairs.  sort.Slice is not stable; records with
\* equal keys keep one of the orders it may produce.
RECURSIVE InsertKeyed(_, _)
InsertKeyed(x, s) ==
    IF s = <<>> THEN <<x>>
    ELSE IF StrLess(x[1], s[1][1]) THEN <<x>> \o s
    ELSE <<s[1]>> \o InsertKeyed(x, Tail(s))

RECURSIVE SortKeyed(_)
SortKeyed(s) == IF s = <<>> THEN <<>> ELSE InsertKeyed(s[1], SortKeyed(Tail(s)))

SeqsUpTo(S, n) == UNION {[1..k -> S] : k \in 0..n}

Range(s) == {s[i] : i \in 1..Len(s)}

Count(s, x) == Cardinality({i \in 1..Len(s) : s[i] = x})

RECURSIVE Flatten(_)
Flatten(ss) == IF ss = <<>> THEN <<>> ELSE ss[1] \o Flatten(Tail(ss))

Reverse(s) == [i \in 1..Len(s) |-> s[Len(s) + 1 - i]]

\* strings.HasPrefix
HasPrefix(s, prefix) == Len(s) >= Len(prefix) /\ SubSeq(s, 1, Len(prefix)) = prefix

\* strings.Split(s, sep) for a one-byte separator; cur is the part being read
RECURSIVE SplitFrom(_, _, _)
SplitFrom(s, sep, cur) ==
    IF s = <<>> THEN <<cur>>
    ELSE IF s[1] = sep THEN <<cur>> \o SplitFrom(Tail(s), sep, <<>>)
    ELSE SplitFrom(Tail(s), sep, Append(cur, s[1]))

Split(s, sep) == SplitFrom(s, sep, <<>>)

\* strings.Fields for fields separated by spaces; cur is the field being read
RECURSIVE FieldsFrom(_, _)
FieldsFrom(s, cur) ==
    IF s = <<>> THEN (IF cur = <<>> THEN <<>> ELSE <<cur>>)
    ELSE IF s[1] = Space THEN (IF cur = <<>> THEN <<>> ELSE <<cur>>) \o FieldsFrom(Tail(s), <<>>)
    ELSE FieldsFrom(Tail(s), Append(cur, s[1]))

Fields(s) == FieldsFrom(s, <<>>)

\* strings.Join(parts, " ")
RECURSIVE JoinSpace(_)
JoinSpace(parts) ==
    IF parts = <<>> THEN <<>>
    ELSE IF Len(parts) = 1 THEN parts[1]
    ELSE parts[1] \o <<Space>> \o JoinSpace(Tail(parts))

\* strings.Trim(s, "\"")
RECURSIVE TrimQuotes(_)
TrimQuotes(s) ==
    IF s = <<>> THEN s
    ELSE IF s[1] = Quote THEN TrimQuotes(Tail(s))
    ELSE IF s[Len(s)] = Quote THEN TrimQuotes(SubSeq(s, 1, Len(s) - 1))
    ELSE s

IsDigits(s) == s /= <<>> /\ \A i \in 1..Len(s) : s[i] >= 48 /\ s[i] <= 57

\* strconv.Atoi of an unsigned decimal; the caller tests IsDigits for the error result
RECURSIVE Atoi(_)
Atoi(s) == IF s = <<>> THEN 0 ELSE 10 * Atoi(SubSeq(s, 1, Len(s) - 1)) + (s[Len(s)] - 48)

\* the integers of a finite set in ascending order
RECURSIVE SortedInts(_)
SortedInts(S) ==
    IF S = {} THEN <<>>
    ELSE LET m == CHOOSE x \in S : \A y \in S : x <= y
         IN  <<m>> \o SortedInts(S \ {m})

-----------------------------------------------------------------------------
(* Generic strategy (A, AAAA, TXT): the diff of Update.                    *)

\* every generic record type is built with NoOpPreprocessor
preprocessor(s) == NoOpPreprocessor(s)

GenericSorted(records) == SortStrings([i \in 1..Len(records) |-> preprocessor(records[i])])

GenericRecordsToRemove(oldRecordsStr, newRecordsStr) ==
    SelectSeq(oldRecordsStr, LAMBDA oldRecord :
        ~ \E j \in 1..Len(newRecordsStr) : oldRecord = newRecordsStr[j])

\* a variant that adds every new record
GenericRecordsToAdd_All(oldRecordsStr, newRecordsStr) == newRecordsStr

GenericRecordsToAdd(oldRecordsStr, newRecordsStr) ==
    SelectSeq(newRecordsStr, LAMBDA newRecord :
        ~ \E j \in 1..Len(oldRecordsStr) : newRecord = oldRecordsStr[j])

-----------------------------------------------------------------------------
(* MX strategy: the diff of Update.                                        *)

\* a declared block {priority, servers} becomes one MXRecord per server
parseRecordsFromState(records) ==
    Flatten([i \in 1..Len(records) |->
        [j \in 1..Len(records[i].servers) |->
            [Priority |-> records[i].priority, Server |-> records[i].servers[j]]]])

findRecordsToRemove(oldRecords, newRecords) ==
    SelectSeq(oldRecords, LAMBDA oldRecord :
        ~ \E j \in 1..Len(newRecords) :
            oldRecord.Priority = newRecords[j].Priority /\ oldRecord.Server = newRecords[j].Server)

\* a variant that compares the servers and not the priorities
findRecordsToAdd_ServerOnly(oldRecords, newRecords) ==
    SelectSeq(newRecords, LAMBDA newRecord :
        ~ \E j \in 1..Len(oldRecords) : newRecord.Server = oldRecords[j].Server)

findRecordsToAdd(oldRecords, newRecords) ==
    SelectSeq(newRecords, LAMBDA newRecord :
        ~ \E j \in 1..Len(oldRecords) :
            newRecord.Priority = oldRecords[j].Priority /\ newRecord.Server = oldRecords[j].Server)

-----------------------------------------------------------------------------
(* NS strategy: the diff of Update.                                        *)

NSparseRecordsFromState(records) ==
    Flatten([i \in 1..Len(records) |->
        [j \in 1..Len(records[i].servers) |->
            [Priority |-> records[i].priority, Server |-> records[i].servers[j]]]])

NSfindRecordsToRemove(oldRecords, newRecords) ==
    SelectSeq(oldRecords, LAMBDA oldRecord :
        ~ \E j \in 1..Len(newRecords) :
            oldRecord.Priority = newRecords[j].Priority /\ oldRecord.Server = newRecords[j].Server)

NSfindRecordsToAdd(oldRecords, newRecords) ==
    SelectSeq(newRecords, LAMBDA newRecord :
        ~ \E j \in 1..Len(oldRecords) :
            newRecord.Priority = oldRecords[j].Priority /\ newRecord.Server = oldRecords[j].Server)

-----------------------------------------------------------------------------
(* SRV strategy: the diff of Update.                                       *)

\* SRVRecord.String: "%d_%d_%d_%s"
SRVString(srv) ==
    Itoa(srv.Priority) \o <<Underscore>> \o Itoa(srv.Weight) \o <<Underscore>>
        \o Itoa(srv.Port) \o <<Underscore>> \o srv.Target

\* parseSRVRecords / getOldSRVRecords: one SRVRecord per target of each block
parseSRVRecords(blocks) ==
    Flatten([i \in 1..Len(blocks) |->
        [j \in 1..Len(blocks[i].targets) |->
            [Priority |-> blocks[i].priority, Weight |-> blocks[i].weight,
             Port |-> blocks[i].port, Target |-> blocks[i].targets[j]]]])

SRVSorted(recs) ==
    LET keyed == SortKeyed([i \in 1..Len(recs) |-> <<SRVString(recs[i]), recs[i]>>])
    IN  [i \in 1..Len(keyed) |-> keyed[i][2]]

SRVRecordsToRemove(oldSRVRecords, newSRVRecords) ==
    SelectSeq(oldSRVRecords, LAMBDA oldRecord :
        ~ \E j \in 1..Len(newSRVRecords) : SRVString(oldRecord) = SRVString(newSRVRecords[j]))

SRVRecordsToAdd(oldSRVRecords, newSRVRecords) ==
    SelectSeq(newSRVRecords, LAMBDA newRecord :
        ~ \E j \in 1..Len(oldSRVRecords) : SRVString(newRecord) = SRVString(oldSRVRecords[j]))

-----------------------------------------------------------------------------
(* CAA strategy: the diff of Update.                                       *)

\* a key without the flag, the broken variant of CAAString
CAAString_NoFlag(caa) == caa.Tag \o <<Underscore>> \o caa.Value

\* CAARecord.String: "%d_%s_%s"
CAAString(caa) == Itoa(caa.Flag) \o <<Underscore>> \o caa.Tag \o <<Underscore>> \o caa.Value

\* parseCAARecords / getOldCAARecords
parseCAARecords(recordList) ==
    [i \in 1..Len(recordList) |->
        [Flag |-> recordList[i].flag, Tag |-> recordList[i].tag, Value |-> recordList[i].value]]

CAASorted(recs) ==
    LET keyed == SortKeyed([i \in 1..Len(recs) |-> <<CAAString(recs[i]), recs[i]>>])
    IN  [i \in 1..Len(keyed) |-> keyed[i][2]]

CAARecordsToRemove(oldCAARecords, newCAARecords) ==
    SelectSeq(oldCAARecords, LAMBDA oldRecord :
        ~ \E j \in 1..Len(newCAARecords) : CAAString(oldRecord) = CAAString(newCAARecords[j]))

CAARecordsToAdd(oldCAARecords, newCAARecords) ==
    SelectSeq(newCAARecords, LAMBDA newRecord :
        ~ \E j \in 1..Len(oldCAARecords) : CAAString(newRecord) = CAAString(oldCAARecords[j]))

-----------------------------------------------------------------------------
(* The update diff of each strategy, from the declared configurations to    *)
(* (toRemove, toAdd), as the first half of each Update computes it.         *)

GenericDiff(old, new) ==
    [toRemove |-> GenericRecordsToRemove(GenericSorted(old), GenericSorted(new)),
     toAdd    |-> GenericRecordsToAdd(GenericSorted(old), GenericSorted(new))]

MXDiff(old, new) ==
    [toRemove |-> findRecordsToRemove(parseRecordsFromState(old), parseRecordsFromState(new)),
     toAdd    |-> findRecordsToAdd(parseRecordsFromState(old), parseRecordsFromState(new))]

NSDiff(old, new) ==
    [toRemove |-> NSfindRecordsToRemove(NSparseRecordsFromState(old), NSparseRecordsFromState(new)),
     toAdd    |-> NSfindRecordsToAdd(NSparseRecordsFromState(old), NSparseRecordsFromState(new))]

SRVDiff(old, new) ==
    [toRemove |-> SRVRecordsToRemove(SRVSorted(parseSRVRecords(old)), SRVSorted(parseSRVRecords(new))),
     toAdd    |-> SRVRecordsToAdd(SRVSorted(parseSRVRecords(old)), SRVSorted(parseSRVRecords(new)))]

CAADiff(old, new) ==
    [toRemove |-> CAARecordsToRemove(CAASorted(parseCAARecords(old)), CAASorted(parseCAARecords(new))),
     toAdd    |-> CAARecordsToAdd(CAASorted(parseCAARecords(old)), CAASorted(parseCAARecords(new)))]

DiffOf(k, old, new) ==
    CASE k = "A"   -> GenericDiff(old, new)
      [] k = "MX"  -> MXDiff(old, new)
      [] k = "NS"  -> NSDiff(old, new)
      [] k = "SRV" -> SRVDiff(old, new)
      [] k = "CAA" -> CAADiff(old, new)

\* the individual records a declared configuration stands for, in declared order
FlatOf(k, cfg) ==
    CASE k = "A"   -> [i \in 1..Len(cfg) |-> preprocessor(cfg[i])]
      [] k = "MX"  -> parseRecordsFromState(cfg)
      [] k = "NS"  -> NSparseRecordsFromState(cfg)
      [] k = "SRV" -> parseSRVRecords(cfg)
      [] k = "CAA" -> parseCAARecords(cfg)

-----------------------------------------------------------------------------
(* Declared configurations of the bounded model.                           *)

GenericVals == {Str1, Str2}
Hosts == {HostA, HostB, HostC, HostADot}
Prios == {9, 10}
SRVDiscs == {<<10, 5, 80>>, <<10, 5, 81>>, <<9, 5, 80>>}
CAAFlags == {0, 128}
CAATags == {TagIssue, TagIodef}
CAAVals == {ValX, ValY}

NonEmptySeqs(S, n) == SeqsUpTo(S, n) \ {<<>>}

RECURSIVE SumLen(_, _)
SumLen(blocks, field) ==
    IF blocks = <<>> THEN 0 ELSE Len(blocks[1][field]) + SumLen(Tail(blocks), field)

GenericConfigs == SeqsUpTo(GenericVals, MaxLen)

MXBlocks == {[priority |-> p, servers |-> s] : p \in Prios, s \in NonEmptySeqs(Hosts, MaxServers)}

MXConfigs == {c \in SeqsUpTo(MXBlocks, MaxServers) : SumLen(c, "servers") <= MaxServers}

SRVBlocks ==
    {[priority |-> q[1], weight |-> q[2], port |-> q[3], targets |-> s] :
        q \in SRVDiscs, s \in NonEmptySeqs(Hosts, MaxServers)}

SRVConfigs == {c \in SeqsUpTo(SRVBlocks, MaxServers) : SumLen(c, "targets") <= MaxServers}

CAABlocks == {[flag |-> f, tag |-> t, value |-> v] : f \in CAAFlags, t \in CAATags, v \in CAAVals}

CAAConfigs == SeqsUpTo(CAABlocks, MaxServers)

ConfigsOf(k) ==
    CASE k = "A"   -> GenericConfigs
      [] k = "MX"  -> MXConfigs
      [] k = "NS"  -> MXConfigs
      [] k = "SRV" -> SRVConfigs
      [] k = "CAA" -> CAAConfigs

DiffKinds == {"A", "MX", "NS", "SRV", "CAA"}

\* the configurations a resource of the lifecycle specification is declared with
LifeHosts == {HostA, HostB, HostADot}

\* the new configuration of the surgical-update example: priority 10, servers a and c
SurgicalNew == <<[priority |-> 10, servers |-> <<HostA, HostC>>]>>

\* one block of priority 10, or two blocks in either order
LifeMXBlocks ==
    {[priority |-> 10, servers |-> s] : s \in NonEmptySeqs(LifeHosts, MaxServers)}

TwoMXBlocks ==
    <<[priority |-> 10, servers |-> <<HostA>>], [priority |-> 9, servers |-> <<HostB>>]>>

LifeNSConfigs == {<<b>> : b \in LifeMXBlocks} \cup {TwoMXBlocks, Reverse(TwoMXBlocks)}

LifeMXConfigs == LifeNSConfigs \cup {SurgicalNew}

LifeSRVBlocks ==
    {[priority |-> 10, weight |-> 5, port |-> 80, targets |-> s] :
        s \in NonEmptySeqs(LifeHosts, MaxServers)}

TwoSRVBlocks ==
    <<[priority |-> 10, weight |-> 5, port |-> 80, targets |-> <<HostA>>],
      [priority |-> 9, weight |-> 5, port |-> 81, targets |-> <<HostB>>]>>

LifeSRVConfigs == {<<b>> : b \in LifeSRVBlocks} \cup {TwoSRVBlocks, Reverse(TwoSRVBlocks)}

LifeCAABlocks == {[flag |-> f, tag |-> t, value |-> ValX] : f \in CAAFlags, t \in CAATags}

TwoCAABlocks ==
    <<[flag |-> 0, tag |-> TagIssue, value |-> ValX],
      [flag |-> 128, tag |-> TagIodef, value |-> ValX]>>

LifeCAAConfigs == {<<b>> : b \in LifeCAABlocks} \cup {TwoCAABlocks, Reverse(TwoCAABlocks)}

\* a CNAME resource declares one target; "" is the empty target
LifeCNAMEConfigs == LifeHosts \cup {<<>>}

Strategies == {"A", "MX", "NS", "SRV", "CAA", "CNAME"}

\* the records list of a generic resource has at least one item
LifeGenericConfigs == NonEmptySeqs(GenericVals, MaxLen)

LifeConfigs(s) ==
    CASE s = "A"     -> LifeGenericConfigs
      [] s = "MX"    -> LifeMXConfigs
      [] s = "NS"    -> LifeNSConfigs
      [] s = "SRV"   -> LifeSRVConfigs
      [] s = "CAA"   -> LifeCAAConfigs
      [] s = "CNAME" -> LifeCNAMEConfigs

-----------------------------------------------------------------------------
(* SpecDiff: the diffs as pure functions of (old, new).                    *)

NoRes == [toRemove |-> <<>>, toAdd |-> <<>>, done |-> FALSE]

\* the values of the variables a specification does not use
NoD == [id |-> <<>>, cfg |-> <<>>]
NoPlan == [new |-> <<>>, suppressed |-> <<>>, done |-> FALSE]
NoOp == [op |-> "none", old |-> <<>>, new |-> <<>>, idBefore |-> <<>>, provBefore |-> {},
         err |-> FALSE, calls |-> <<>>, trace |-> <<>>]
EmptyCache == [z \in {} |-> <<>>]
\* lastGet.sets: zone -> [Data, At], the last Set of each zone that no Invalidate or
\* Clear has followed
\* lastGet.err, lastGet.before: the error of a GetRecordsWithCache and the map it found
NoGet == [call |-> "none", zone |-> <<>>, hit |-> FALSE, data |-> <<>>, sets |-> EmptyCache,
          err |-> FALSE, before |-> EmptyCache]

LifeIdle ==
    /\ strategy = "none"
    /\ d = NoD
    /\ provider = {}
    /\ plan = NoPlan
    /\ lastOp = NoOp
    /\ nops = 0
    /\ nedits = 0

DiffIdle ==
    /\ kind = "none"
    /\ oldIn = <<>>
    /\ newIn = <<>>
    /\ res = NoRes

NoThreads == <<>>
NoMu == [global |-> [r |-> {}, w |-> 0], zc |-> [r |-> {}, w |-> 0]]
\* imp: the identifier given, the zone and name attributes Import has set, whether
\* Import has run and whether it accepted the identifier
NoImp == [id |-> <<>>, zone |-> <<>>, name |-> <<>>, done |-> FALSE, parsed |-> FALSE]

ConcIdle ==
    /\ threads = NoThreads
    /\ mu = NoMu
    /\ fatal = FALSE

ImpIdle == imp = NoImp

\* wr: the response given to the first write call of a handler, and the error that
\* doRequest or CheckAPIResponseForErrors made of it (<<>>: none)
NoWr == [resp |-> "none", msg |-> <<>>, done |-> FALSE]

WrIdle == wr = NoWr

InitDiff ==
    /\ kind \in DiffKinds
    /\ oldIn \in ConfigsOf(kind)
    /\ newIn \in ConfigsOf(kind)
    /\ res = NoRes
    /\ LifeIdle
    /\ cache = EmptyCache
    /\ now = 0
    /\ lastGet = NoGet
    /\ ConcIdle
    /\ ImpIdle
    /\ WrIdle

ApplyDiff(k) ==
    /\ kind = k
    /\ ~res.done
    /\ res' = [toRemove |-> DiffOf(k, oldIn, newIn).toRemove,
               toAdd    |-> DiffOf(k, oldIn, newIn).toAdd,
               done     |-> TRUE]
    /\ UNCHANGED <<kind, oldIn, newIn, lifeVars, cacheVars, concVars, imp, wr>>

DiffGeneric == ApplyDiff("A")
DiffMX == ApplyDiff("MX")
DiffNS == ApplyDiff("NS")
DiffSRV == ApplyDiff("SRV")
DiffCAA == ApplyDiff("CAA")

NextDiff == DiffGeneric \/ DiffMX \/ DiffNS \/ DiffSRV \/ DiffCAA

SpecDiff == InitDiff /\ [][NextDiff]_vars

-----------------------------------------------------------------------------
(* The zone cache of the cached client.                                    *)

\* ZoneCacheEntry.TTL, in seconds
TTL == 30

\* the clock stops here
MaxTime == 31

ZoneZ == <<122>>             \* "z", the zone of the resource
ZoneY == <<121>>             \* "y", another zone
Zones == {ZoneZ, ZoneY}
NameN == <<110>>             \* "n", the name of the resource

\* nil bytes
NoData == [Dname |-> <<>>, Rrs |-> <<>>]

\* a variant that expires an entry as soon as its age reaches the TTL
ZoneCacheGet_Early(c, zone, t) ==
    IF zone \notin DOMAIN c
    THEN [data |-> NoData, hit |-> FALSE, cache |-> c]
    ELSE IF t - c[zone].Timestamp >= c[zone].TTL
         THEN [data |-> NoData, hit |-> FALSE, cache |-> [z \in DOMAIN c \ {zone} |-> c[z]]]
         ELSE [data |-> c[zone].Data, hit |-> TRUE, cache |-> c]

\* ZoneCache.Get: the entry is served while time.Since(Timestamp) <= TTL; an expired
\* entry is deleted by the Get that finds it
ZoneCacheGet(c, zone, t) ==
    IF zone \notin DOMAIN c
    THEN [data |-> NoData, hit |-> FALSE, cache |-> c]
    ELSE IF t - c[zone].Timestamp > c[zone].TTL
         THEN [data |-> NoData, hit |-> FALSE, cache |-> [z \in DOMAIN c \ {zone} |-> c[z]]]
         ELSE [data |-> c[zone].Data, hit |-> TRUE, cache |-> c]

\* a variant that replaces the whole map by the one entry
ZoneCacheSet_Only(c, zone, data, t) ==
    [z \in {zone} |-> [Data |-> data, Timestamp |-> t, TTL |-> TTL]]

\* a Set that gives the entry twice the TTL, the broken variant of ZoneCacheSet
ZoneCacheSet_Long(c, zone, data, t) ==
    [z \in DOMAIN c \cup {zone} |->
        IF z = zone THEN [Data |-> data, Timestamp |-> t, TTL |-> 2 * TTL] ELSE c[z]]

\* ZoneCache.Set
ZoneCacheSet(c, zone, data, t) ==
    [z \in DOMAIN c \cup {zone} |->
        IF z = zone THEN [Data |-> data, Timestamp |-> t, TTL |-> TTL] ELSE c[z]]

\* an Invalidate that empties the map, the broken variant of ZoneCacheInvalidate
ZoneCacheInvalidate_All(c, zone) == [z \in {} |-> <<>>]

\* ZoneCache.Invalidate
ZoneCacheInvalidate(c, zone) == [z \in DOMAIN c \ {zone} |-> c[z]]

\* ZoneCache.Clear
ZoneCacheClear(c) == EmptyCache

-----------------------------------------------------------------------------
(* The provider: the records it holds and the calls of the client.         *)

\* base.DNSRecord, one record of a zone listing
DNSRecord(t, content, prio, weight, port, flag, tag) ==
    [Subname |-> NameN, Rectype |-> t, Content |-> content, Prio |-> prio,
     Weight |-> weight, Port |-> port, Flag |-> flag, Tag |-> tag]

\* the record a write call names: AddRecord / RemoveRecord send (type, content,
\* priority); a nil priority is not sent
GenericWire(recordStr) == DNSRecord("A", recordStr, 0, 0, 0, 0, <<>>)

\* MX, NS and CNAME contents are sent with a trailing dot
HostWire(t, server, priority) == DNSRecord(t, AddTrailingDot(server), priority, 0, 0, 0, <<>>)

\* AddSRVRecord / RemoveSRVRecord send the target as declared
SRVWire(srv) == DNSRecord("SRV", srv.Target, srv.Priority, srv.Weight, srv.Port, 0, <<>>)

\* AddCAARecord / RemoveCAARecord send value, flags and tag
CAAWire(caa) == DNSRecord("CAA", caa.Value, 0, 0, 0, caa.Flag, caa.Tag)

\* one provider write call: the record it names and the declared record it is for
WriteCall(op, rec, decl) == [op |-> op, rec |-> rec, decl |-> decl, ok |-> TRUE]

\* the state of a handler that is running: the provider and the cache as it has
\* changed them, the write calls and the events so far, and whether it has failed
StartExec == [prov |-> provider, cache |-> cache, calls |-> <<>>, trace |-> <<>>, err |-> FALSE]

\* what the provider does with a write call it accepts
ApplyCall(prov, c) == IF c.op = "add" THEN prov \cup {c.rec} ELSE prov \ {c.rec}

\* a loop of write calls that goes on after a call has failed, the broken variant
\* of IssueCalls
RECURSIVE IssueCalls_Continue(_, _, _)
IssueCalls_Continue(x, todo, failAt) ==
    IF todo = <<>> THEN x
    ELSE LET ok == (Len(x.calls) + 1 /= failAt)
         IN  IssueCalls_Continue([x EXCEPT !.prov = IF ok THEN ApplyCall(@, todo[1]) ELSE @,
                                           !.calls = Append(@, [todo[1] EXCEPT !.ok = ok]),
                                           !.trace = Append(@, todo[1].op),
                                           !.err = @ \/ ~ok],
                                 Tail(todo), failAt)

\* a loop of write calls (doRequest): the call numbered failAt among the calls of
\* the handler comes back as an error and the handler returns at it.  The error of
\* a remove that names a record the provider does not hold is its not-found report
RECURSIVE IssueCalls(_, _, _)
IssueCalls(x, todo, failAt) ==
    IF todo = <<>> \/ x.err THEN x
    ELSE LET ok == (Len(x.calls) + 1 /= failAt)
         IN  IssueCalls([x EXCEPT !.prov = IF ok THEN ApplyCall(@, todo[1]) ELSE @,
                                  !.calls = Append(@, [todo[1] EXCEPT !.ok = ok]),
                                  !.trace = Append(@, todo[1].op) \o
                                            (IF ~ok /\ todo[1].op = "remove"
                                                    /\ todo[1].rec \notin x.prov
                                             THEN <<"not_found">> ELSE <<>>),
                                  !.err = ~ok],
                        Tail(todo), failAt)

RECURSIVE SeqOfSet(_)
SeqOfSet(S) ==
    IF S = {} THEN <<>>
    ELSE LET e == CHOOSE x \in S : TRUE IN <<e>> \o SeqOfSet(S \ {e})

\* the records of the zone under another name, which other resources manage
OtherName == <<109>>         \* "m"
OtherRecords ==
    [i \in 1..6 |->
        [DNSRecord(<<"A", "MX", "NS", "SRV", "CAA", "CNAME">>[i], HostC, 0, 0, 0, 0, <<>>)
            EXCEPT !.Subname = OtherName]]

\* GetRecords: the provider lists the records of the zone, those of the resource in
\* one order or its reverse
ZoneResponse(prov, zone, rev) ==
    [Dname |-> zone,
     Rrs |-> (IF rev THEN Reverse(SeqOfSet(prov)) ELSE SeqOfSet(prov)) \o OtherRecords]

\* CachedClient.InvalidateZoneCache
InvalidateZoneCache(x, zone) ==
    [x EXCEPT !.cache = ZoneCacheInvalidate(@, zone), !.trace = Append(@, "invalidate")]

\* CachedClient.ClearZoneCache
ClearZoneCache(x) == [x EXCEPT !.cache = ZoneCacheClear(@), !.trace = Append(@, "clear")]

\* a variant that stores the nil bytes of a failed fetch
GetRecordsWithCache_CacheErr(x, zone, t, fetch) ==
    LET g == ZoneCacheGet(x.cache, zone, t)
        data == ZoneResponse(x.prov, zone, fetch.rev)
    IN  IF g.hit
        THEN [x |-> [x EXCEPT !.cache = g.cache, !.trace = Append(@, "hit")],
              data |-> g.data, err |-> FALSE]
        ELSE IF ~fetch.ok
        THEN [x |-> [x EXCEPT !.cache = ZoneCacheSet(g.cache, zone, NoData, t),
                              !.trace = @ \o <<"miss", "fetch_err">>,
                              !.err = TRUE],
              data |-> NoData, err |-> TRUE]
        ELSE [x |-> [x EXCEPT !.cache = ZoneCacheSet(g.cache, zone, data, t),
                              !.trace = @ \o <<"miss", "fetch", "set">>],
              data |-> data, err |-> FALSE]

\* CachedClient.GetRecordsWithCache; fetch = [ok, rev] is what GetRecords does if called
GetRecordsWithCache(x, zone, t, fetch) ==
    LET g == ZoneCacheGet(x.cache, zone, t)
        data == ZoneResponse(x.prov, zone, fetch.rev)
    IN  IF g.hit
        THEN [x |-> [x EXCEPT !.cache = g.cache, !.trace = Append(@, "hit")],
              data |-> g.data, err |-> FALSE]
        ELSE IF ~fetch.ok
        THEN [x |-> [x EXCEPT !.cache = g.cache, !.trace = @ \o <<"miss", "fetch_err">>,
                              !.err = TRUE],
              data |-> NoData, err |-> TRUE]
        ELSE [x |-> [x EXCEPT !.cache = ZoneCacheSet(g.cache, zone, data, t),
                              !.trace = @ \o <<"miss", "fetch", "set">>],
              data |-> data, err |-> FALSE]

\* the records of a listing with the type and the name of the resource
Matching(data, t) == SelectSeq(data.Rrs, LAMBDA r : r.Rectype = t /\ r.Subname = NameN)

\* the same, in the domain of the listing named zone only
MatchingIn(data, zone, t) == IF data.Dname = zone THEN Matching(data, t) ELSE <<>>

\* CommonOperations.SetResourceID: "zone/name"
ResourceID == ZoneZ \o <<Slash>> \o NameN

\* the identifier CAA Create sets: "zone/name/CAA"
CAAResourceID == ZoneZ \o <<Slash>> \o NameN \o <<Slash>> \o <<67, 65, 65>>

-----------------------------------------------------------------------------
(* Generic strategy (A, AAAA, TXT): Create, Read, Update, Delete.           *)
(* A handler takes the running state x and the resource data dd and gives  *)
(* [x, d]; dd.cfg holds the values d.Get returns.                          *)

GenericCalls(op, recs) == [i \in 1..Len(recs) |-> WriteCall(op, GenericWire(recs[i]), recs[i])]

GenericRead(x, dd, t, fetch) ==
    LET g == GetRecordsWithCache(x, ZoneZ, t, fetch)
        rrs == Matching(g.data, "A")
        foundRecords == [i \in 1..Len(rrs) |-> preprocessor(rrs[i].Content)]
    IN  IF g.err THEN [x |-> g.x, d |-> dd]
        ELSE IF Len(foundRecords) = 0 THEN [x |-> g.x, d |-> [dd EXCEPT !.id = <<>>]]
        ELSE [x |-> g.x, d |-> [dd EXCEPT !.cfg = SortStrings(foundRecords)]]

GenericCreate(x, dd, failAt, t, fetch) ==
    IF Len(dd.cfg) = 0 THEN [x |-> [x EXCEPT !.err = TRUE], d |-> dd]
    ELSE LET w == IssueCalls(x, GenericCalls("add", GenericSorted(dd.cfg)), failAt)
         IN  IF w.err THEN [x |-> w, d |-> dd]
             ELSE GenericRead(w, [dd EXCEPT !.id = ResourceID], t, fetch)

GenericUpdate(x, dd, new, failAt, t, fetch) ==
    LET nd == [dd EXCEPT !.cfg = new]
        oldRecordsStr == GenericSorted(dd.cfg)
        newRecordsStr == GenericSorted(new)
        rm == IssueCalls(x, GenericCalls("remove",
                  GenericRecordsToRemove(oldRecordsStr, newRecordsStr)), failAt)
        ad == IssueCalls(rm, GenericCalls("add",
                  GenericRecordsToAdd(oldRecordsStr, newRecordsStr)), failAt)
        w == IF dd.cfg = new THEN x
             ELSE IF ad.err THEN ad
             ELSE InvalidateZoneCache(ad, ZoneZ)
    IN  IF w.err THEN [x |-> w, d |-> nd] ELSE GenericRead(w, nd, t, fetch)

GenericDelete(x, dd, failAt) ==
    LET w == IssueCalls(x, GenericCalls("remove",
                 [i \in 1..Len(dd.cfg) |-> preprocessor(dd.cfg[i])]), failAt)
    IN  IF w.err THEN [x |-> w, d |-> dd]
        ELSE [x |-> InvalidateZoneCache(w, ZoneZ), d |-> dd]

-----------------------------------------------------------------------------
(* MX strategy: Create, Read, Update, Delete.                              *)

MXCalls(op, recs) ==
    [i \in 1..Len(recs) |-> WriteCall(op, HostWire("MX", recs[i].Server, recs[i].Priority), recs[i])]

\* the blocks of a Read: one per priority in ascending order, its servers sorted
PriorityBlocks(rrs) ==
    LET prios == SortedInts({rrs[i].Prio : i \in 1..Len(rrs)})
        group(p) == SelectSeq(rrs, LAMBDA r : r.Prio = p)
    IN  [i \in 1..Len(prios) |->
            [priority |-> prios[i],
             servers |-> SortStrings([j \in 1..Len(group(prios[i])) |->
                             NormalizeDomain(group(prios[i])[j].Content)])]]

\* a Create that sets the identifier before it looks at the error of its adds, the
\* broken variant of MXCreate
MXCreate_IdFirst(x, dd, failAt) ==
    LET sorted == [i \in 1..Len(dd.cfg) |->
                      [priority |-> dd.cfg[i].priority, servers |-> SortStrings(dd.cfg[i].servers)]]
        w == IssueCalls(x, MXCalls("add", parseRecordsFromState(sorted)), failAt)
    IN  IF w.err THEN [x |-> w, d |-> [dd EXCEPT !.id = ResourceID]]
        ELSE [x |-> InvalidateZoneCache(w, ZoneZ), d |-> [dd EXCEPT !.id = ResourceID]]

MXCreate(x, dd, failAt) ==
    LET sorted == [i \in 1..Len(dd.cfg) |->
                      [priority |-> dd.cfg[i].priority, servers |-> SortStrings(dd.cfg[i].servers)]]
        w == IssueCalls(x, MXCalls("add", parseRecordsFromState(sorted)), failAt)
    IN  IF w.err THEN [x |-> w, d |-> dd]
        ELSE [x |-> InvalidateZoneCache(w, ZoneZ), d |-> [dd EXCEPT !.id = ResourceID]]

MXRead(x, dd, t, fetch) ==
    LET g == GetRecordsWithCache(x, ZoneZ, t, fetch)
        rrs == MatchingIn(g.data, ZoneZ, "MX")
    IN  IF g.err THEN [x |-> g.x, d |-> dd]
        ELSE IF Len(rrs) = 0 THEN [x |-> g.x, d |-> [dd EXCEPT !.id = <<>>]]
        ELSE [x |-> g.x, d |-> [dd EXCEPT !.cfg = PriorityBlocks(rrs)]]

MXUpdate(x, dd, new, failAt) ==
    LET nd == [dd EXCEPT !.cfg = new]
        oldMXRecords == parseRecordsFromState(dd.cfg)
        newMXRecords == parseRecordsFromState(new)
        rm == IssueCalls(x, MXCalls("remove", findRecordsToRemove(oldMXRecords, newMXRecords)), failAt)
        ad == IssueCalls(rm, MXCalls("add", findRecordsToAdd(oldMXRecords, newMXRecords)), failAt)
    IN  IF ad.err THEN [x |-> ad, d |-> nd]
        ELSE [x |-> InvalidateZoneCache(ad, ZoneZ), d |-> nd]

MXDelete(x, dd, failAt, t, fetch) ==
    LET g == GetRecordsWithCache(x, ZoneZ, t, fetch)
        rrs == MatchingIn(g.data, ZoneZ, "MX")
        w == IssueCalls(g.x, MXCalls("remove",
                 [i \in 1..Len(rrs) |-> [Priority |-> rrs[i].Prio, Server |-> rrs[i].Content]]), failAt)
    IN  IF g.err THEN [x |-> g.x, d |-> dd]
        ELSE IF w.err THEN [x |-> w, d |-> dd]
        ELSE [x |-> InvalidateZoneCache(w, ZoneZ), d |-> [dd EXCEPT !.id = <<>>]]

-----------------------------------------------------------------------------
(* NS strategy: Create, Read, Update, Delete.                              *)

NSCalls(op, recs) ==
    [i \in 1..Len(recs) |-> WriteCall(op, HostWire("NS", recs[i].Server, recs[i].Priority), recs[i])]

NSCreate(x, dd, failAt) ==
    LET w == IssueCalls(x, NSCalls("add", NSparseRecordsFromState(dd.cfg)), failAt)
    IN  IF w.err THEN [x |-> w, d |-> dd]
        ELSE [x |-> InvalidateZoneCache(w, ZoneZ), d |-> [dd EXCEPT !.id = ResourceID]]

NSRead(x, dd, t, fetch) ==
    LET g == GetRecordsWithCache(x, ZoneZ, t, fetch)
        rrs == MatchingIn(g.data, ZoneZ, "NS")
    IN  IF g.err THEN [x |-> g.x, d |-> dd]
        ELSE IF Len(rrs) = 0 THEN [x |-> g.x, d |-> [dd EXCEPT !.id = <<>>]]
        ELSE [x |-> g.x, d |-> [dd EXCEPT !.cfg = PriorityBlocks(rrs)]]

NSUpdate(x, dd, new, failAt) ==
    LET nd == [dd EXCEPT !.cfg = new]
        oldNSRecords == NSparseRecordsFromState(dd.cfg)
        newNSRecords == NSparseRecordsFromState(new)
        rm == IssueCalls(x, NSCalls("remove", NSfindRecordsToRemove(oldNSRecords, newNSRecords)), failAt)
        ad == IssueCalls(rm, NSCalls("add", NSfindRecordsToAdd(oldNSRecords, newNSRecords)), failAt)
    IN  IF ad.err THEN [x |-> ad, d |-> nd]
        ELSE [x |-> InvalidateZoneCache(ad, ZoneZ), d |-> nd]

NSDelete(x, dd, failAt) ==
    LET w == IssueCalls(x, NSCalls("remove", NSparseRecordsFromState(dd.cfg)), failAt)
    IN  IF w.err THEN [x |-> w, d |-> dd]
        ELSE [x |-> InvalidateZoneCache(w, ZoneZ), d |-> dd]

-----------------------------------------------------------------------------
(* SRV strategy: Create, Read, Update, Delete.                             *)

SRVCalls(op, recs) == [i \in 1..Len(recs) |-> WriteCall(op, SRVWire(recs[i]), recs[i])]

\* the target of a listed SRV record: the third field of a combined content
SRVTargetOf(content) ==
    IF (\E i \in 1..Len(content) : content[i] = Space) /\ Len(Fields(content)) >= 3
    THEN Fields(content)[3]
    ELSE content

\* fmt.Sprintf("%d_%d_%d", Priority, Weight, Port), the key of a block
SRVGroupKey(srv) ==
    Itoa(srv.Priority) \o <<Underscore>> \o Itoa(srv.Weight) \o <<Underscore>> \o Itoa(srv.Port)

SRVBlockLess(a, b) ==
    IF a.priority /= b.priority THEN a.priority < b.priority
    ELSE IF a.weight /= b.weight THEN a.weight < b.weight
    ELSE a.port < b.port

\* sort.Slice of the record blocks by priority, weight, port
RECURSIVE SortSRVBlocks(_)
SortSRVBlocks(S) ==
    IF S = {} THEN <<>>
    ELSE LET m == CHOOSE a \in S : \A b \in S \ {a} : SRVBlockLess(a, b)
         IN  <<m>> \o SortSRVBlocks(S \ {m})

\* the blocks of a Read: one per (priority, weight, port), its targets sorted
SRVRecordBlocks(found) ==
    LET keys == {SRVGroupKey(found[i]) : i \in 1..Len(found)}
        targets(key) ==
            LET sel == SelectSeq(found, LAMBDA r : SRVGroupKey(r) = key)
            IN  SortStrings([j \in 1..Len(sel) |-> sel[j].Target])
        block(key) ==
            [priority |-> Atoi(Split(key, Underscore)[1]),
             weight   |-> Atoi(Split(key, Underscore)[2]),
             port     |-> Atoi(Split(key, Underscore)[3]),
             targets  |-> targets(key)]
    IN  SortSRVBlocks({block(key) : key \in keys})

SRVRead(x, dd, t, fetch) ==
    LET g == GetRecordsWithCache(x, ZoneZ, t, fetch)
        rrs == Matching(g.data, "SRV")
        foundSRVRecords ==
            [i \in 1..Len(rrs) |->
                [Priority |-> rrs[i].Prio, Weight |-> rrs[i].Weight, Port |-> rrs[i].Port,
                 Target |-> NormalizeDomain(SRVTargetOf(rrs[i].Content))]]
    IN  IF g.err THEN [x |-> g.x, d |-> dd]
        ELSE IF Len(foundSRVRecords) = 0 THEN [x |-> g.x, d |-> [dd EXCEPT !.id = <<>>]]
        ELSE [x |-> g.x, d |-> [dd EXCEPT !.cfg = SRVRecordBlocks(SRVSorted(foundSRVRecords))]]

SRVCreate(x, dd, failAt, t, fetch) ==
    LET srvRecords == parseSRVRecords(dd.cfg)
        w == IssueCalls(x, SRVCalls("add", SRVSorted(srvRecords)), failAt)
    IN  IF Len(srvRecords) = 0 THEN [x |-> [x EXCEPT !.err = TRUE], d |-> dd]
        ELSE IF w.err THEN [x |-> w, d |-> dd]
        ELSE SRVRead(w, [dd EXCEPT !.id = ResourceID], t, fetch)

SRVUpdate(x, dd, new, failAt, t, fetch) ==
    LET nd == [dd EXCEPT !.cfg = new]
        oldSRVRecords == SRVSorted(parseSRVRecords(dd.cfg))
        newSRVRecords == SRVSorted(parseSRVRecords(new))
        rm == IssueCalls(x, SRVCalls("remove", SRVRecordsToRemove(oldSRVRecords, newSRVRecords)), failAt)
        ad == IssueCalls(rm, SRVCalls("add", SRVRecordsToAdd(oldSRVRecords, newSRVRecords)), failAt)
        w == IF dd.cfg = new THEN x
             ELSE IF ad.err THEN ad
             ELSE InvalidateZoneCache(ad, ZoneZ)
    IN  IF w.err THEN [x |-> w, d |-> nd] ELSE SRVRead(w, nd, t, fetch)

SRVDelete(x, dd, failAt) ==
    LET w == IssueCalls(x, SRVCalls("remove", parseSRVRecords(dd.cfg)), failAt)
    IN  IF w.err THEN [x |-> w, d |-> dd]
        ELSE [x |-> InvalidateZoneCache(w, ZoneZ), d |-> dd]

-----------------------------------------------------------------------------
(* CAA strategy: Create, Read, Update, Delete.                             *)

CAACalls(op, recs) == [i \in 1..Len(recs) |-> WriteCall(op, CAAWire(recs[i]), recs[i])]

\* a parse that never looks at the structured fields, the broken variant of
\* CAAOfListed
CAAOfListed_ContentOnly(record) ==
    LET parts == Fields(record.Content)
        value == JoinSpace(SubSeq(parts, 3, Len(parts)))
    IN  IF Len(parts) >= 3
        THEN [Flag  |-> IF IsDigits(parts[1]) THEN Atoi(parts[1]) ELSE 0,
              Tag   |-> parts[2],
              Value |-> NormalizeDomain(value)]
        ELSE [Flag |-> 0, Tag |-> <<>>, Value |-> NormalizeDomain(record.Content)]

\* the CAARecord of a listed record: its structured flag and tag when it has them, else
\* the fields of its content flag tag "value", else the content as the value
CAAOfListed(record) ==
    LET parts == Fields(record.Content)
        value == JoinSpace(SubSeq(parts, 3, Len(parts)))
    IN  IF record.Flag /= 0 \/ record.Tag /= <<>>
        THEN [Flag |-> record.Flag, Tag |-> record.Tag, Value |-> NormalizeDomain(record.Content)]
        ELSE IF Len(parts) >= 3
        THEN [Flag  |-> IF IsDigits(parts[1]) THEN Atoi(parts[1]) ELSE 0,
              Tag   |-> parts[2],
              Value |-> NormalizeDomain(
                            IF value[1] = Quote /\ value[Len(value)] = Quote
                            THEN TrimQuotes(value) ELSE value)]
        ELSE [Flag |-> 0, Tag |-> <<>>, Value |-> NormalizeDomain(record.Content)]

CAARead(x, dd, t, fetch) ==
    LET g == GetRecordsWithCache(x, ZoneZ, t, fetch)
        rrs == Matching(g.data, "CAA")
        foundCAARecords == CAASorted([i \in 1..Len(rrs) |-> CAAOfListed(rrs[i])])
    IN  IF g.err THEN [x |-> g.x, d |-> dd]
        ELSE IF Len(foundCAARecords) = 0 THEN [x |-> g.x, d |-> [dd EXCEPT !.id = <<>>]]
        ELSE [x |-> g.x,
              d |-> [dd EXCEPT !.cfg = [i \in 1..Len(foundCAARecords) |->
                        [flag  |-> foundCAARecords[i].Flag,
                         tag   |-> foundCAARecords[i].Tag,
                         value |-> foundCAARecords[i].Value]]]]

CAACreate(x, dd, failAt, t, fetch) ==
    LET caaRecords == parseCAARecords(dd.cfg)
        w == IssueCalls(x, CAACalls("add", CAASorted(caaRecords)), failAt)
    IN  IF Len(caaRecords) = 0 THEN [x |-> [x EXCEPT !.err = TRUE], d |-> dd]
        ELSE IF w.err THEN [x |-> w, d |-> dd]
        ELSE CAARead(w, [dd EXCEPT !.id = CAAResourceID], t, fetch)

CAAUpdate(x, dd, new, failAt, t, fetch) ==
    LET nd == [dd EXCEPT !.cfg = new]
        oldCAARecords == CAASorted(parseCAARecords(dd.cfg))
        newCAARecords == CAASorted(parseCAARecords(new))
        rm == IssueCalls(x, CAACalls("remove", CAARecordsToRemove(oldCAARecords, newCAARecords)), failAt)
        ad == IssueCalls(rm, CAACalls("add", CAARecordsToAdd(oldCAARecords, newCAARecords)), failAt)
        w == IF dd.cfg = new THEN x
             ELSE IF ad.err THEN ad
             ELSE InvalidateZoneCache(ad, ZoneZ)
    IN  IF w.err THEN [x |-> w, d |-> nd] ELSE CAARead(w, nd, t, fetch)

CAADelete(x, dd, failAt) ==
    LET w == IssueCalls(x, CAACalls("remove", parseCAARecords(dd.cfg)), failAt)
    IN  IF w.err THEN [x |-> w, d |-> dd]
        ELSE [x |-> InvalidateZoneCache(w, ZoneZ), d |-> dd]

-----------------------------------------------------------------------------
(* CNAME strategy: Create, Read, Update, Delete.                           *)

CNAMECall(op, cname) == WriteCall(op, HostWire("CNAME", cname, 0), cname)

CNAMECreate(x, dd, failAt) ==
    LET w == IssueCalls(x, <<CNAMECall("add", dd.cfg)>>, failAt)
    IN  IF w.err THEN [x |-> w, d |-> dd]
        ELSE [x |-> InvalidateZoneCache(w, ZoneZ), d |-> [dd EXCEPT !.id = ResourceID]]

CNAMERead(x, dd, t, fetch) ==
    LET g == GetRecordsWithCache(x, ZoneZ, t, fetch)
        rrs == MatchingIn(g.data, ZoneZ, "CNAME")
        foundCNAME == IF Len(rrs) = 0 THEN <<>> ELSE NormalizeDomain(rrs[1].Content)
    IN  IF g.err THEN [x |-> g.x, d |-> dd]
        ELSE IF foundCNAME = <<>> THEN [x |-> g.x, d |-> [dd EXCEPT !.id = <<>>]]
        ELSE [x |-> g.x, d |-> [dd EXCEPT !.cfg = foundCNAME]]

CNAMEUpdate(x, dd, new, failAt) ==
    LET nd == [dd EXCEPT !.cfg = new]
        rm == IF dd.cfg /= <<>> THEN IssueCalls(x, <<CNAMECall("remove", dd.cfg)>>, failAt) ELSE x
        ad == IF new /= <<>> THEN IssueCalls(rm, <<CNAMECall("add", new)>>, failAt) ELSE rm
    IN  IF ad.err THEN [x |-> ad, d |-> nd]
        ELSE [x |-> InvalidateZoneCache(ad, ZoneZ), d |-> nd]

CNAMEDelete(x, dd, failAt) ==
    LET w == IF dd.cfg /= <<>> THEN IssueCalls(x, <<CNAMECall("remove", dd.cfg)>>, failAt) ELSE x
    IN  IF w.err THEN [x |-> w, d |-> dd]
        ELSE [x |-> InvalidateZoneCache(w, ZoneZ), d |-> dd]

-----------------------------------------------------------------------------
(* The diff-suppress functions of the resource schemas.  A key is the       *)
(* attribute path the host passes, e.g. "records.0" or "record.1.servers.#". *)

StrRecords == <<114, 101, 99, 111, 114, 100, 115>>      \* "records"
StrRecord == <<114, 101, 99, 111, 114, 100>>            \* "record"
StrServers == <<115, 101, 114, 118, 101, 114, 115>>     \* "servers"
StrTargets == <<116, 97, 114, 103, 101, 116, 115>>      \* "targets"
StrCount == <<35>>                                       \* "#"

\* base.RecordsListDiffSuppressFunc; old is d.GetChange's state side, new its
\* configuration side
RecordsListDiffSuppressFunc(k, dd, new) ==
    LET oldStrs == dd.cfg
        newStrs == new
        oldSet == [str \in Range(oldStrs) |-> Count(oldStrs, str)]
        newSet == [str \in Range(newStrs) |-> Count(newStrs, str)]
    IN  IF dd.id = <<>> THEN FALSE
        ELSE IF ~HasPrefix(k, StrRecords \o <<Dot>>) THEN FALSE
        ELSE IF Len(oldStrs) /= Len(newStrs) THEN FALSE
        ELSE IF Cardinality(DOMAIN oldSet) /= Cardinality(DOMAIN newSet) THEN FALSE
        ELSE \A str \in DOMAIN oldSet :
                (IF str \in DOMAIN newSet THEN newSet[str] ELSE 0) = oldSet[str]

\* the list a record block holds under fieldName
FieldOf(block, fieldName) == IF fieldName = StrServers THEN block.servers ELSE block.targets

\* a variant that compares the two lists as they stand, unsorted
handleNestedFieldDiff_Unsorted(k, dd, new, fieldName) ==
    LET parts == Split(k, Dot)
        recordIndex == Atoi(parts[2])
    IN  IF Len(parts) < 3 \/ parts[3] /= fieldName THEN FALSE
        ELSE IF ~IsDigits(parts[2]) THEN FALSE
        ELSE IF recordIndex >= Len(dd.cfg) \/ recordIndex >= Len(new) THEN FALSE
        ELSE FieldOf(dd.cfg[recordIndex + 1], fieldName) = FieldOf(new[recordIndex + 1], fieldName)

handleNestedFieldDiff(k, dd, new, fieldName) ==
    LET parts == Split(k, Dot)
        recordIndex == Atoi(parts[2])
        oldStrs == SortStrings(FieldOf(dd.cfg[recordIndex + 1], fieldName))
        newStrs == SortStrings(FieldOf(new[recordIndex + 1], fieldName))
    IN  IF Len(parts) < 3 \/ parts[3] /= fieldName THEN FALSE
        ELSE IF ~IsDigits(parts[2]) THEN FALSE
        ELSE IF recordIndex >= Len(dd.cfg) \/ recordIndex >= Len(new) THEN FALSE
        ELSE IF Len(oldStrs) = 0 \/ Len(newStrs) = 0 THEN FALSE
        ELSE oldStrs = newStrs

\* GenericDiffSuppressFunc with FieldType "nested_field"
GenericDiffSuppressFunc(k, dd, new, fieldName) ==
    IF dd.id = <<>> THEN FALSE ELSE handleNestedFieldDiff(k, dd, new, fieldName)

MXServersDiffSuppressFunc(k, dd, new) == GenericDiffSuppressFunc(k, dd, new, StrServers)

NSServersDiffSuppressFunc(k, dd, new) == GenericDiffSuppressFunc(k, dd, new, StrServers)

SRVTargetsDiffSuppressFunc(k, dd, new) == GenericDiffSuppressFunc(k, dd, new, StrTargets)

\* the keys of a list attribute with n places: its count and its elements
ListKeys(prefix, n) ==
    {prefix \o <<Dot>> \o StrCount} \cup {prefix \o <<Dot>> \o Itoa(i) : i \in 0..(n - 1)}

NestedKeys(fieldName) ==
    UNION {ListKeys(StrRecord \o <<Dot>> \o Itoa(i) \o <<Dot>> \o fieldName, MaxServers) :
              i \in 0..(MaxServers - 1)}

\* the keys the host passes to the diff-suppress function of a resource
SuppressKeys(s) ==
    CASE s = "A"   -> ListKeys(StrRecords, MaxLen)
      [] s = "MX"  -> NestedKeys(StrServers)
      [] s = "NS"  -> NestedKeys(StrServers)
      [] s = "SRV" -> NestedKeys(StrTargets)
      [] OTHER     -> {}

SuppressOf(s, k, dd, new) ==
    CASE s = "A"   -> RecordsListDiffSuppressFunc(k, dd, new)
      [] s = "MX"  -> MXServersDiffSuppressFunc(k, dd, new)
      [] s = "NS"  -> NSServersDiffSuppressFunc(k, dd, new)
      [] s = "SRV" -> SRVTargetsDiffSuppressFunc(k, dd, new)

-----------------------------------------------------------------------------
(* Spec: one resource through plan, Create, Read, Update and Delete, with   *)
(* the provider, the zone cache and the clock.                             *)

\* handlers run in one behaviour
MaxOps == 2
\* configurations the user supplies in one behaviour
MaxEdits == 1

\* the latest write call of a handler that may fail
MaxFail == 2

\* the write call of a handler that may fail: none (0) or the one so numbered
FailPoints == 0..MaxFail

Fetches == {[ok |-> o, rev |-> r] : o \in BOOLEAN, r \in BOOLEAN}

CreateOf(s, x, dd, failAt, t, fetch) ==
    CASE s = "A"     -> GenericCreate(x, dd, failAt, t, fetch)
      [] s = "MX"    -> MXCreate(x, dd, failAt)
      [] s = "NS"    -> NSCreate(x, dd, failAt)
      [] s = "SRV"   -> SRVCreate(x, dd, failAt, t, fetch)
      [] s = "CAA"   -> CAACreate(x, dd, failAt, t, fetch)
      [] s = "CNAME" -> CNAMECreate(x, dd, failAt)

ReadOf(s, x, dd, t, fetch) ==
    CASE s = "A"     -> GenericRead(x, dd, t, fetch)
      [] s = "MX"    -> MXRead(x, dd, t, fetch)
      [] s = "NS"    -> NSRead(x, dd, t, fetch)
      [] s = "SRV"   -> SRVRead(x, dd, t, fetch)
      [] s = "CAA"   -> CAARead(x, dd, t, fetch)
      [] s = "CNAME" -> CNAMERead(x, dd, t, fetch)

UpdateOf(s, x, dd, new, failAt, t, fetch) ==
    CASE s = "A"     -> GenericUpdate(x, dd, new, failAt, t, fetch)
      [] s = "MX"    -> MXUpdate(x, dd, new, failAt)
      [] s = "NS"    -> NSUpdate(x, dd, new, failAt)
      [] s = "SRV"   -> SRVUpdate(x, dd, new, failAt, t, fetch)
      [] s = "CAA"   -> CAAUpdate(x, dd, new, failAt, t, fetch)
      [] s = "CNAME" -> CNAMEUpdate(x, dd, new, failAt)

DeleteOf(s, x, dd, failAt, t, fetch) ==
    CASE s = "A"     -> GenericDelete(x, dd, failAt)
      [] s = "MX"    -> MXDelete(x, dd, failAt, t, fetch)
      [] s = "NS"    -> NSDelete(x, dd, failAt)
      [] s = "SRV"   -> SRVDelete(x, dd, failAt)
      [] s = "CAA"   -> CAADelete(x, dd, failAt)
      [] s = "CNAME" -> CNAMEDelete(x, dd, failAt)

\* the identifier a Create of the strategy sets
IdOf(s) == IF s = "CAA" THEN CAAResourceID ELSE ResourceID

\* the records a provider that accepted every add of a Create of cfg holds
ProviderOf(s, cfg) ==
    CreateOf(s, [prov |-> {}, cache |-> EmptyCache, calls |-> <<>>, trace |-> <<>>, err |-> FALSE],
             [id |-> <<>>, cfg |-> cfg], 0, 0, [ok |-> TRUE, rev |-> FALSE]).x.prov

\* what the host keeps of the resource data when a handler returns: nothing after a
\* successful Delete or when the identifier is empty, else the data as the handler left it
SaveState(op, r) ==
    IF op = "Delete" /\ ~r.x.err THEN NoD
    ELSE IF r.d.id = <<>> THEN NoD
    ELSE r.d

Fetched(trace) == \E i \in 1..Len(trace) : trace[i] \in {"fetch", "fetch_err"}

\* the choices of failAt and fetch that the handler run r has met
Met(r, failAt, fetch) ==
    /\ failAt <= Len(r.x.calls)
    /\ Fetched(r.x.trace) \/ (fetch.ok /\ ~fetch.rev)
    /\ fetch.ok \/ ~fetch.rev

Finish(op, new, r) ==
    /\ provider' = r.x.prov
    /\ cache' = r.x.cache
    /\ d' = SaveState(op, r)
    /\ lastOp' = [op |-> op, old |-> d.cfg, new |-> new, idBefore |-> d.id,
                  provBefore |-> provider, err |-> r.x.err, calls |-> r.x.calls,
                  trace |-> r.x.trace]
    /\ nops' = nops + 1
    /\ plan' = NoPlan
    /\ UNCHANGED <<strategy, now, nedits, diffVars, lastGet, concVars, imp, wr>>

Init ==
    /\ strategy \in Strategies
    /\ \/ d = NoD /\ provider = {}
       \/ \E cfg \in LifeConfigs(strategy) :
             /\ d = [id |-> IdOf(strategy), cfg |-> cfg]
             /\ provider = ProviderOf(strategy, cfg)
    /\ cache = EmptyCache
    /\ now = 0
    /\ plan = NoPlan
    /\ lastOp = NoOp
    /\ nops = 0
    /\ nedits = 0
    /\ lastGet = NoGet
    /\ ConcIdle
    /\ ImpIdle
    /\ WrIdle
    /\ DiffIdle

\* the user supplies a configuration and the host plans the change, asking the
\* diff-suppress function of the resource about each key of the list
Plan ==
    /\ ~plan.done
    /\ nops < MaxOps
    /\ nedits < MaxEdits
    /\ \E new \in LifeConfigs(strategy) :
          /\ (strategy = "CNAME" /\ d.id /= <<>>) => new /= d.cfg
          /\ plan' = [new |-> new,
                      suppressed |-> [k \in SuppressKeys(strategy) |->
                                         SuppressOf(strategy, k, d, new)],
                      done |-> TRUE]
    /\ nedits' = nedits + 1
    /\ UNCHANGED <<strategy, d, provider, cache, now, lastOp, nops, diffVars, lastGet, concVars, imp, wr>>

Create ==
    /\ plan.done
    /\ d.id = <<>>
    /\ nops < MaxOps
    /\ \E failAt \in FailPoints, fetch \in Fetches :
          LET r == CreateOf(strategy, StartExec, [id |-> <<>>, cfg |-> plan.new], failAt, now, fetch)
          IN  Met(r, failAt, fetch) /\ Finish("Create", plan.new, r)

Read ==
    /\ ~plan.done
    /\ d.id /= <<>>
    /\ nops < MaxOps
    /\ \E fetch \in Fetches :
          LET r == ReadOf(strategy, StartExec, d, now, fetch)
          IN  Met(r, 0, fetch) /\ Finish("Read", <<>>, r)

Update ==
    /\ plan.done
    /\ d.id /= <<>>
    /\ nops < MaxOps
    /\ \E failAt \in FailPoints, fetch \in Fetches :
          LET r == UpdateOf(strategy, StartExec, d, plan.new, failAt, now, fetch)
          IN  Met(r, failAt, fetch) /\ Finish("Update", plan.new, r)

Delete ==
    /\ ~plan.done
    /\ d.id /= <<>>
    /\ nops < MaxOps
    /\ \E failAt \in FailPoints, fetch \in Fetches :
          LET r == DeleteOf(strategy, StartExec, d, failAt, now, fetch)
          IN  Met(r, failAt, fetch) /\ Finish("Delete", <<>>, r)

\* another resource of the zone reads its records through the cached client
OtherRead ==
    /\ ~plan.done
    /\ nops < MaxOps
    /\ LET g == GetRecordsWithCache(StartExec, ZoneZ, now, [ok |-> TRUE, rev |-> FALSE])
       IN  /\ cache' = g.x.cache
           /\ cache' /= cache
    /\ UNCHANGED <<strategy, d, provider, now, plan, lastOp, nops, nedits, diffVars, lastGet, concVars, imp, wr>>

\* more than the TTL passes over the entries of the cache
Wait ==
    /\ ~plan.done
    /\ DOMAIN cache /= {}
    /\ now + TTL + 1 <= MaxTime
    /\ now' = now + TTL + 1
    /\ UNCHANGED <<strategy, d, provider, cache, plan, lastOp, nops, nedits, diffVars, lastGet, concVars, imp, wr>>

Next == Plan \/ Create \/ Read \/ Update \/ Delete \/ OtherRead \/ Wait

Spec == Init /\ [][Next]_vars

-----------------------------------------------------------------------------
(* SpecCache: the zone cache alone, two zones and the clock.               *)

\* the records the provider may hold for the name of the resource
CacheProviders == {{}, {GenericWire(Str1)}}

\* the bytes a caller stores for a zone: a listing of the zone
Payloads(zone) == {ZoneResponse(prov, zone, FALSE) : prov \in CacheProviders}

\* the clock advances by one of these
TickSteps == {1, TTL}

InitCache ==
    /\ cache = EmptyCache
    /\ now = 0
    /\ lastGet = [NoGet EXCEPT !.sets = EmptyCache]
    /\ ConcIdle
    /\ ImpIdle
    /\ WrIdle
    /\ LifeIdle
    /\ DiffIdle

CacheGet ==
    \E zone \in Zones :
        LET g == ZoneCacheGet(cache, zone, now)
        IN  /\ cache' = g.cache
            /\ lastGet' = [lastGet EXCEPT !.call = "Get", !.err = FALSE, !.before = EmptyCache, !.zone = zone, !.hit = g.hit,
                                          !.data = g.data]
            /\ UNCHANGED <<now, lifeVars, diffVars, concVars, imp, wr>>

CacheSet ==
    \E zone \in Zones : \E data \in Payloads(zone) :
        /\ cache' = ZoneCacheSet(cache, zone, data, now)
        /\ lastGet' = [lastGet EXCEPT !.call = "Set", !.err = FALSE, !.before = EmptyCache, !.zone = zone, !.hit = FALSE,
                                      !.data = data,
                                      !.sets = [z \in DOMAIN @ \cup {zone} |->
                                                   IF z = zone THEN [Data |-> data, At |-> now]
                                                   ELSE @[z]]]
        /\ UNCHANGED <<now, lifeVars, diffVars, concVars, imp, wr>>

CacheInvalidate ==
    \E zone \in Zones :
        /\ cache' = ZoneCacheInvalidate(cache, zone)
        /\ lastGet' = [lastGet EXCEPT !.call = "Invalidate", !.err = FALSE, !.before = EmptyCache, !.zone = zone, !.hit = FALSE,
                                      !.data = NoData,
                                      !.sets = [z \in DOMAIN @ \ {zone} |-> @[z]]]
        /\ UNCHANGED <<now, lifeVars, diffVars, concVars, imp, wr>>

CacheClear ==
    /\ cache' = ZoneCacheClear(cache)
    /\ lastGet' = [lastGet EXCEPT !.call = "Clear", !.err = FALSE, !.before = EmptyCache, !.zone = <<>>, !.hit = FALSE,
                                  !.data = NoData, !.sets = EmptyCache]
    /\ UNCHANGED <<now, lifeVars, diffVars, concVars, imp, wr>>

\* a caller reads a zone through the cached client; the provider holds prov and
\* answers the fetch, if there is one, with the listing or with an error
CacheGetRecords ==
    \E zone \in Zones : \E prov \in CacheProviders : \E ok \in BOOLEAN :
        LET x == [prov |-> prov, cache |-> cache, calls |-> <<>>, trace |-> <<>>,
                  err |-> FALSE]
            g == GetRecordsWithCache(x, zone, now, [ok |-> ok, rev |-> FALSE])
            stored == "set" \in Range(g.x.trace)
        IN  /\ cache' = g.x.cache
            /\ lastGet' = [lastGet EXCEPT !.call = "GetRecordsWithCache", !.zone = zone,
                                          !.hit = ("hit" \in Range(g.x.trace)),
                                          !.data = g.data, !.err = g.err, !.before = cache,
                                          !.sets = IF stored
                                                   THEN [z \in DOMAIN @ \cup {zone} |->
                                                            IF z = zone
                                                            THEN [Data |-> g.data, At |-> now]
                                                            ELSE @[z]]
                                                   ELSE @]
            /\ UNCHANGED <<now, lifeVars, diffVars, concVars, imp, wr>>

Tick ==
    \E step \in TickSteps :
        /\ now + step <= MaxTime
        /\ now' = now + step
        /\ lastGet' = [lastGet EXCEPT !.call = "Tick", !.err = FALSE, !.before = EmptyCache, !.zone = <<>>, !.hit = FALSE,
                                      !.data = NoData]
        /\ UNCHANGED <<cache, lifeVars, diffVars, concVars, imp, wr>>

NextCache == CacheGet \/ CacheSet \/ CacheInvalidate \/ CacheClear \/ CacheGetRecords \/ Tick

SpecCache == InitCache /\ [][NextCache]_vars

-----------------------------------------------------------------------------
(* SpecConc: goroutines calling the cached client at the same time.  Every *)
(* lock operation, map access and provider fetch of a call is one step.    *)

\* the goroutines
MaxThreads == 2
Threads == 1..MaxThreads

\* the calls all goroutines make together
MaxCalls == 3

ConcOps == {"GetRecordsWithCache", "InvalidateZoneCache", "ClearZoneCache"}

\* a goroutine between two calls
IdleThread == [pc |-> "idle", op |-> "none", zone |-> <<>>, hit |-> FALSE, err |-> FALSE,
               resp |-> NoData, ret |-> NoData, start |-> 0, live |-> {}, c0 |-> EmptyCache]

\* sync.RWMutex
CanRLock(m) == m.w = 0
CanLock(m) == m.w = 0 /\ m.r = {}
RLock(m, t) == [m EXCEPT !.r = @ \cup {t}]
RUnlock_Held(m, t) == m
RUnlock(m, t) == [m EXCEPT !.r = @ \ {t}]
Lock(m, t) == [m EXCEPT !.w = t]
Unlock(m, t) == [m EXCEPT !.w = 0]

Holds(m, t) == t \in m.r \/ m.w = t

\* the positions at which a goroutine reads the map, and at which it changes it
MapReadPcs == {"lookup"}
MapWritePcs == {"delete", "set", "invalidate", "clear"}

InCall(t) == threads[t].pc \notin {"idle", "done"}

\* another goroutine is at a map access that nothing orders with the one of t
Racing(t, pcs) == \E u \in Threads \ {t} : threads[u].pc \in pcs

InitConc ==
    /\ threads = [t \in Threads |-> IdleThread]
    /\ mu = NoMu
    /\ fatal = FALSE
    /\ cache = EmptyCache
    /\ now = 0
    /\ lastGet = NoGet
    /\ LifeIdle
    /\ DiffIdle
    /\ ImpIdle
    /\ WrIdle

ConcFrame == UNCHANGED <<strategy, d, provider, plan, lastOp, nedits, diffVars, lastGet, imp, wr>>

\* a goroutine calls the cached client
Begin(t) ==
    /\ ~fatal
    /\ ~InCall(t)
    /\ nops < MaxCalls
    /\ \E op \in ConcOps : \E zone \in Zones :
          /\ op = "ClearZoneCache" => zone = ZoneZ
          /\ threads' = [threads EXCEPT ![t] =
                 [IdleThread EXCEPT !.pc = IF op = "GetRecordsWithCache" THEN "g_rlock"
                                            ELSE "g_lock",
                                    !.op = op, !.zone = zone, !.start = nops + 1,
                                    !.live = {u \in Threads \ {t} : InCall(u)},
                                    !.c0 = cache]]
    /\ nops' = nops + 1
    /\ UNCHANGED <<mu, fatal, cache, now>>
    /\ ConcFrame

Goto(t, pc) == threads' = [threads EXCEPT ![t].pc = pc]

\* GetRecordsWithCache: globalCacheMutex.RLock()
GlobalRLock(t) ==
    /\ ~fatal
    /\ threads[t].pc = "g_rlock"
    /\ CanRLock(mu.global)
    /\ mu' = [mu EXCEPT !.global = RLock(@, t)]
    /\ Goto(t, "zc_rlock")
    /\ UNCHANGED <<fatal, cache, now, nops>>
    /\ ConcFrame

\* ZoneCache.Get: zc.mutex.RLock()
ZcRLock(t) ==
    /\ ~fatal
    /\ threads[t].pc = "zc_rlock"
    /\ CanRLock(mu.zc)
    /\ mu' = [mu EXCEPT !.zc = RLock(@, t)]
    /\ Goto(t, "lookup")
    /\ UNCHANGED <<fatal, cache, now, nops>>
    /\ ConcFrame

\* ZoneCache.Get: entry, exists := zc.cache[zone], and the age test.  A lookup
\* that another goroutine's delete is not ordered with may stop the process
\* ("concurrent map read and map write")
Lookup(t) ==
    /\ ~fatal
    /\ threads[t].pc = "lookup"
    /\ LET zone == threads[t].zone
       IN  \/ /\ zone \notin DOMAIN cache
              /\ Goto(t, "zc_runlock")
              /\ UNCHANGED fatal
           \/ /\ zone \in DOMAIN cache
              /\ now - cache[zone].Timestamp > cache[zone].TTL
              /\ Goto(t, "delete")
              /\ UNCHANGED fatal
           \/ /\ zone \in DOMAIN cache
              /\ ~(now - cache[zone].Timestamp > cache[zone].TTL)
              /\ threads' = [threads EXCEPT ![t].pc = "zc_runlock", ![t].hit = TRUE,
                                            ![t].ret = cache[zone].Data]
              /\ UNCHANGED fatal
           \/ /\ Racing(t, {"delete"})
              /\ fatal' = TRUE
              /\ UNCHANGED threads
    /\ UNCHANGED <<mu, cache, now, nops>>
    /\ ConcFrame

\* ZoneCache.Get: delete(zc.cache, zone) of the expired entry, under the read lock.
\* A delete that another goroutine's lookup or delete is not ordered with takes
\* effect, is lost, or stops the process ("concurrent map writes")
DeleteExpired(t) ==
    /\ ~fatal
    /\ threads[t].pc = "delete"
    /\ \/ /\ cache' = ZoneCacheInvalidate(cache, threads[t].zone)
          /\ Goto(t, "zc_runlock")
          /\ UNCHANGED fatal
       \/ /\ Racing(t, MapReadPcs \cup MapWritePcs)
          /\ Goto(t, "zc_runlock")
          /\ UNCHANGED <<cache, fatal>>
       \/ /\ Racing(t, MapReadPcs \cup MapWritePcs)
          /\ fatal' = TRUE
          /\ UNCHANGED <<cache, threads>>
    /\ UNCHANGED <<mu, now, nops>>
    /\ ConcFrame

\* ZoneCache.Get: the deferred zc.mutex.RUnlock()
ZcRUnlock(t) ==
    /\ ~fatal
    /\ threads[t].pc = "zc_runlock"
    /\ mu' = [mu EXCEPT !.zc = RUnlock(@, t)]
    /\ Goto(t, "g_runlock")
    /\ UNCHANGED <<fatal, cache, now, nops>>
    /\ ConcFrame

\* GetRecordsWithCache: globalCacheMutex.RUnlock(), on a hit followed by the
\* return of the cached bytes, on a miss by the fetch
GlobalRUnlock(t) ==
    /\ ~fatal
    /\ threads[t].pc = "g_runlock"
    /\ mu' = [mu EXCEPT !.global = RUnlock(@, t)]
    /\ Goto(t, IF threads[t].hit THEN "done" ELSE "fetch")
    /\ UNCHANGED <<fatal, cache, now, nops>>
    /\ ConcFrame

\* GetRecordsWithCache: cc.GetRecords(zone), which answers with the bytes of the
\* zone or with an error
Fetch(t) ==
    /\ ~fatal
    /\ threads[t].pc = "fetch"
    /\ \/ \E data \in Payloads(threads[t].zone) :
             threads' = [threads EXCEPT ![t].pc = "g_lock", ![t].resp = data]
       \/ threads' = [threads EXCEPT ![t].pc = "done", ![t].err = TRUE]
    /\ UNCHANGED <<mu, fatal, cache, now, nops>>
    /\ ConcFrame

\* globalCacheMutex.Lock() of GetRecordsWithCache, InvalidateZoneCache and
\* ClearZoneCache
GlobalLock(t) ==
    /\ ~fatal
    /\ threads[t].pc = "g_lock"
    /\ CanLock(mu.global)
    /\ mu' = [mu EXCEPT !.global = Lock(@, t)]
    /\ Goto(t, "zc_lock")
    /\ UNCHANGED <<fatal, cache, now, nops>>
    /\ ConcFrame

\* zc.mutex.Lock() of ZoneCache.Set, Invalidate and Clear
ZcLock(t) ==
    /\ ~fatal
    /\ threads[t].pc = "zc_lock"
    /\ CanLock(mu.zc)
    /\ mu' = [mu EXCEPT !.zc = Lock(@, t)]
    /\ Goto(t, CASE threads[t].op = "GetRecordsWithCache" -> "set"
                 [] threads[t].op = "InvalidateZoneCache" -> "invalidate"
                 [] OTHER -> "clear")
    /\ UNCHANGED <<fatal, cache, now, nops>>
    /\ ConcFrame

\* ZoneCache.Set: zc.cache[zone] = ZoneCacheEntry{...}; the caller returns the
\* bytes it fetched
StoreFetched(t) ==
    /\ ~fatal
    /\ threads[t].pc = "set"
    /\ cache' = ZoneCacheSet(cache, threads[t].zone, threads[t].resp, now)
    /\ threads' = [threads EXCEPT ![t].pc = "zc_unlock", ![t].ret = threads[t].resp]
    /\ UNCHANGED <<mu, fatal, now, nops>>
    /\ ConcFrame

\* ZoneCache.Invalidate: delete(zc.cache, zone)
DropZone(t) ==
    /\ ~fatal
    /\ threads[t].pc = "invalidate"
    /\ cache' = ZoneCacheInvalidate(cache, threads[t].zone)
    /\ Goto(t, "zc_unlock")
    /\ UNCHANGED <<mu, fatal, now, nops>>
    /\ ConcFrame

\* ZoneCache.Clear: zc.cache = make(map[string]*ZoneCacheEntry)
DropAll(t) ==
    /\ ~fatal
    /\ threads[t].pc = "clear"
    /\ cache' = ZoneCacheClear(cache)
    /\ Goto(t, "zc_unlock")
    /\ UNCHANGED <<mu, fatal, now, nops>>
    /\ ConcFrame

\* the deferred zc.mutex.Unlock()
ZcUnlock(t) ==
    /\ ~fatal
    /\ threads[t].pc = "zc_unlock"
    /\ mu' = [mu EXCEPT !.zc = Unlock(@, t)]
    /\ Goto(t, "g_unlock")
    /\ UNCHANGED <<fatal, cache, now, nops>>
    /\ ConcFrame

\* globalCacheMutex.Unlock(), and the return
GlobalUnlock(t) ==
    /\ ~fatal
    /\ threads[t].pc = "g_unlock"
    /\ mu' = [mu EXCEPT !.global = Unlock(@, t)]
    /\ Goto(t, "done")
    /\ UNCHANGED <<fatal, cache, now, nops>>
    /\ ConcFrame

\* more than the TTL passes
Expire ==
    /\ ~fatal
    /\ DOMAIN cache /= {}
    /\ now + TTL + 1 <= MaxTime
    /\ now' = now + TTL + 1
    /\ UNCHANGED <<threads, mu, fatal, cache, nops>>
    /\ ConcFrame

ConcBegin == \E t \in Threads : Begin(t)
ConcGlobalRLock == \E t \in Threads : GlobalRLock(t)
ConcZcRLock == \E t \in Threads : ZcRLock(t)
ConcLookup == \E t \in Threads : Lookup(t)
ConcDeleteExpired == \E t \in Threads : DeleteExpired(t)
ConcZcRUnlock == \E t \in Threads : ZcRUnlock(t)
ConcGlobalRUnlock == \E t \in Threads : GlobalRUnlock(t)
ConcFetch == \E t \in Threads : Fetch(t)
ConcGlobalLock == \E t \in Threads : GlobalLock(t)
ConcZcLock == \E t \in Threads : ZcLock(t)
ConcStoreFetched == \E t \in Threads : StoreFetched(t)
ConcDropZone == \E t \in Threads : DropZone(t)
ConcDropAll == \E t \in Threads : DropAll(t)
ConcZcUnlock == \E t \in Threads : ZcUnlock(t)
ConcGlobalUnlock == \E t \in Threads : GlobalUnlock(t)

NextConc ==
    \/ ConcBegin \/ ConcGlobalRLock \/ ConcZcRLock \/ ConcLookup \/ ConcDeleteExpired
    \/ ConcZcRUnlock \/ ConcGlobalRUnlock \/ ConcFetch \/ ConcGlobalLock \/ ConcZcLock
    \/ ConcStoreFetched \/ ConcDropZone \/ ConcDropAll \/ ConcZcUnlock \/ ConcGlobalUnlock
    \/ Expire

SpecConc == InitConc /\ [][NextConc]_vars

-----------------------------------------------------------------------------
(* SpecImport: Import applied to every identifier of a bounded set.        *)

\* the bytes of an identifier and its longest length
IdBytes == {122, 110, Slash}
MaxIdLen == 5

\* the identifiers given to Import: all short ones, and the two that Create sets
ImportIds == SeqsUpTo(IdBytes, MaxIdLen) \cup {ResourceID, CAAResourceID}

\* a variant that splits at the first "/" and accepts what follows as the name
ParseResourceID_First(id) ==
    LET parts == Split(id, Slash)
    IN  IF Len(parts) < 2
        THEN [zone |-> <<>>, name |-> <<>>, err |-> TRUE]
        ELSE [zone |-> parts[1], name |-> SubSeq(id, Len(parts[1]) + 2, Len(id)),
              err |-> FALSE]

\* CommonOperations.ParseResourceID
ParseResourceID(id) ==
    LET parts == Split(id, Slash)
    IN  IF Len(parts) /= 2
        THEN [zone |-> <<>>, name |-> <<>>, err |-> TRUE]
        ELSE [zone |-> parts[1], name |-> parts[2], err |-> FALSE]

\* Read of the resource data with the attributes zone and name.  The provider holds
\* records of the zone z only, and for the resource those of the name n
ReadAt(s, x, dd, zone, name, t, fetch) ==
    IF zone = ZoneZ /\ name = NameN THEN ReadOf(s, x, dd, t, fetch)
    ELSE LET g == GetRecordsWithCache([x EXCEPT !.prov = IF zone = ZoneZ THEN @ ELSE {}],
                                      zone, t, fetch)
             gx == [g.x EXCEPT !.prov = x.prov]
         IN  IF g.err THEN [x |-> gx, d |-> dd]
             ELSE [x |-> gx, d |-> [dd EXCEPT !.id = <<>>]]

\* Import of every strategy: parse the identifier, set zone and name, Read
ImportOf(s, x, dd, t, fetch) ==
    LET p == ParseResourceID(dd.id)
    IN  IF p.err
        THEN [x |-> [x EXCEPT !.err = TRUE], d |-> dd, zone |-> <<>>, name |-> <<>>,
              parsed |-> FALSE]
        ELSE LET r == ReadAt(s, x, dd, p.zone, p.name, t, fetch)
             IN  [x |-> r.x, d |-> r.d, zone |-> p.zone, name |-> p.name, parsed |-> TRUE]

\* the host has made the resource data of the import: the identifier, nothing else
InitImport ==
    /\ strategy \in Strategies
    /\ \E cfg \in LifeConfigs(strategy) :
          /\ strategy = "CNAME" => cfg /= <<>>
          /\ provider \in {{}, ProviderOf(strategy, cfg)}
    /\ \E id \in ImportIds :
          /\ d = [id |-> id, cfg |-> <<>>]
          /\ imp = [NoImp EXCEPT !.id = id]
    /\ cache = EmptyCache
    /\ now = 0
    /\ plan = NoPlan
    /\ lastOp = NoOp
    /\ nops = 0
    /\ nedits = 0
    /\ lastGet = NoGet
    /\ ConcIdle
    /\ DiffIdle
    /\ WrIdle

Import ==
    /\ ~imp.done
    /\ \E fetch \in Fetches :
          LET r == ImportOf(strategy, StartExec, d, now, fetch)
          IN  /\ Met(r, 0, fetch)
              /\ provider' = r.x.prov
              /\ cache' = r.x.cache
              /\ d' = r.d
              /\ lastOp' = [op |-> "Import", old |-> <<>>, new |-> <<>>, idBefore |-> d.id,
                            provBefore |-> provider, err |-> r.x.err, calls |-> r.x.calls,
                            trace |-> r.x.trace]
              /\ imp' = [imp EXCEPT !.zone = r.zone, !.name = r.name, !.done = TRUE,
                                    !.parsed = r.parsed]
    /\ nops' = nops + 1
    /\ UNCHANGED <<strategy, now, plan, nedits, diffVars, lastGet, concVars, wr>>

NextImport == Import

SpecImport == InitImport /\ [][NextImport]_vars

-----------------------------------------------------------------------------
(* SpecWrite: the provider's response to a write call, what doRequest and   *)
(* CheckAPIResponseForErrors make of it, and the handler that receives it.  *)

MaxDomains == 1

\* the shapes of an error_params object: absent, a map of strings, or an object
\* with nested values (conflicting_records)
ParamShapes == {"none", "strings", "nested"}

\* an error code formatHumanReadableError knows, one it does not, and none
ErrorCodes == {"", "DOMAIN_NOT_FOUND", "NO_SUCH_CODE"}

ErrorText == "text of the provider"

\* answer.domains[] of a response: a domain that succeeded, or one with an error
DomainAnswers ==
    {[dname |-> "z", result |-> "success", error_code |-> "", error_text |-> "",
      error_params |-> "none"]}
    \cup {[dname |-> "z", result |-> "error", error_code |-> c, error_text |-> ErrorText,
           error_params |-> p] : c \in ErrorCodes, p \in ParamShapes}

\* a body that is no JSON document
Garbled == [json |-> FALSE, result |-> "", error_code |-> "", error_text |-> "",
            error_params |-> "none", domains |-> <<>>]

\* the bodies the provider may answer a write call with
Responses ==
    {Garbled}
    \cup {[json |-> TRUE, result |-> "success", error_code |-> "", error_text |-> "",
           error_params |-> "none", domains |-> ds] : ds \in SeqsUpTo(DomainAnswers, MaxDomains)}
    \cup {[json |-> TRUE, result |-> "error", error_code |-> c, error_text |-> ErrorText,
           error_params |-> p, domains |-> ds] :
             c \in ErrorCodes, p \in ParamShapes, ds \in SeqsUpTo(DomainAnswers, MaxDomains)}

\* an error message, as the sequence of the pieces it is formatted from
formatHumanReadableError(errorCode, errorText, errorParams) ==
    CASE errorCode = "DOMAIN_NOT_FOUND" ->
           <<"Domain not found: The specified domain does not exist in your account or you don't have access to it.">>
      [] errorCode = "RECORD_NOT_FOUND" ->
           <<"DNS record not found: The specified DNS record does not exist.">>
      [] OTHER ->
           <<"API Error: ", errorText, " (Code: ", errorCode, ")">>
           \o (IF errorParams = "strings" THEN <<" - Additional info: ", errorParams>> ELSE <<>>)

\* json.Unmarshal into APIError (error_params map[string]string at the top level)
DecodesAPIError(body) == body.json /\ body.error_params /= "nested"

\* json.Unmarshal into APIResponse (error_params map[string]string in each domain)
DecodesAPIResponse(body) ==
    body.json /\ \A i \in 1..Len(body.domains) : body.domains[i].error_params /= "nested"

\* json.Unmarshal into APIErrorResponse (error_params a struct with conflicting_records)
DecodesAPIErrorResponse(body) == body.json

\* the domains of a body whose result is "error", in order
ErrorDomains(body) == SelectSeq(body.domains, LAMBDA dm : dm.result = "error")

\* Client.doRequest on the body of the response: the error it returns, <<>> for none
doRequest(body) ==
    IF DecodesAPIError(body) /\ body.result = "error"
    THEN formatHumanReadableError(body.error_code, body.error_text, body.error_params)
    ELSE IF DecodesAPIResponse(body) /\ body.result = "error"
    THEN IF Len(body.domains) > 0 /\ body.domains[1].error_code /= ""
         THEN formatHumanReadableError(body.domains[1].error_code, body.domains[1].error_text,
                                       body.domains[1].error_params)
         ELSE <<"API error: overall result is error">>
    ELSE IF DecodesAPIResponse(body) /\ ErrorDomains(body) /= <<>>
    THEN formatHumanReadableError(ErrorDomains(body)[1].error_code, ErrorDomains(body)[1].error_text,
                                  ErrorDomains(body)[1].error_params)
    ELSE <<>>

\* "Domain %s: %s" and " (Error Code: %s)" of one domain
DomainErrorMsg(dm) ==
    <<"Domain ", dm.dname, ": ", dm.error_text>>
    \o (IF dm.error_code /= "" THEN <<" (Error Code: ", dm.error_code, ")">> ELSE <<>>)

RECURSIVE JoinErrors(_)
JoinErrors(ds) ==
    IF ds = <<>> THEN <<>>
    ELSE IF Len(ds) = 1 THEN DomainErrorMsg(ds[1])
    ELSE DomainErrorMsg(ds[1]) \o <<"; ">> \o JoinErrors(Tail(ds))

\* base.CheckAPIResponseForErrors: the error it returns, <<>> for nil
CheckAPIResponseForErrors(response) ==
    IF ~DecodesAPIErrorResponse(response) THEN <<>>
    ELSE IF response.result = "error" /\ ErrorDomains(response) /= <<>>
    THEN <<"API operation failed: ">> \o JoinErrors(ErrorDomains(response))
    ELSE IF ErrorDomains(response) /= <<>>
    THEN <<"API operation failed: ">> \o DomainErrorMsg(ErrorDomains(response)[1])
    ELSE <<>>

\* response, err := c.AddRecord(...) / c.RemoveRecord(...) followed by
\* CheckAPIResponseForErrors(response): the error the handler returns at the call,
\* which it wraps in "failed to <verb> <type> record <value>: "
WriteResult(body) ==
    IF doRequest(body) /= <<>> THEN doRequest(body) ELSE CheckAPIResponseForErrors(body)

FetchOk == [ok |-> TRUE, rev |-> FALSE]

InitWrite ==
    /\ strategy \in Strategies
    /\ \/ d = NoD /\ provider = {}
       \/ \E cfg \in LifeConfigs(strategy) :
             /\ strategy = "CNAME" => cfg /= <<>>
             /\ d = [id |-> IdOf(strategy), cfg |-> cfg]
             /\ provider = ProviderOf(strategy, cfg)
    /\ cache = EmptyCache
    /\ now = 0
    /\ plan = NoPlan
    /\ lastOp = NoOp
    /\ nops = 0
    /\ nedits = 0
    /\ lastGet = NoGet
    /\ ConcIdle
    /\ ImpIdle
    /\ WrIdle
    /\ DiffIdle

\* the handler has returned: what the host and the history keep of it
FinishWrite(op, new, r, body) ==
    /\ provider' = r.x.prov
    /\ cache' = r.x.cache
    /\ d' = SaveState(op, r)
    /\ lastOp' = [op |-> op, old |-> d.cfg, new |-> new, idBefore |-> d.id,
                  provBefore |-> provider, err |-> r.x.err, calls |-> r.x.calls,
                  trace |-> r.x.trace]
    /\ wr' = [resp |-> body, msg |-> WriteResult(body), done |-> TRUE]
    /\ nops' = nops + 1
    /\ UNCHANGED <<strategy, now, plan, nedits, diffVars, lastGet, concVars, imp>>

\* the call of the handler that meets the response: its first, failing when the
\* client or the check of the response returns an error
FailAtOf(body) == IF WriteResult(body) /= <<>> THEN 1 ELSE 0

\* a Create whose first add is answered with body
WriteCreate ==
    /\ ~wr.done
    /\ d.id = <<>>
    /\ \E cfg \in LifeConfigs(strategy), body \in Responses :
          LET r == CreateOf(strategy, StartExec, [id |-> <<>>, cfg |-> cfg], FailAtOf(body),
                            now, FetchOk)
          IN  /\ Len(r.x.calls) >= 1
              /\ FinishWrite("Create", cfg, r, body)

\* a Delete whose first remove is answered with body
WriteDelete ==
    /\ ~wr.done
    /\ d.id /= <<>>
    /\ \E body \in Responses :
          LET r == DeleteOf(strategy, StartExec, d, FailAtOf(body), now, FetchOk)
          IN  /\ Len(r.x.calls) >= 1
              /\ FinishWrite("Delete", <<>>, r, body)

NextWrite == WriteCreate \/ WriteDelete

SpecWrite == InitWrite /\ [][NextWrite]_vars

-----------------------------------------------------------------------------
(* SpecKey: the diff of two configurations of one record each, over values  *)
(* that hold the delimiter of the key strings.                              *)

KeyTags == {<<105>>, <<120>>, <<105, Underscore, 120>>}         \* "i", "x", "i_x"
KeyVals == {<<121>>, <<120, Underscore, 121>>}                \* "y", "x_y"
KeyTargets == {HostA, <<56, 48, Underscore, 97>>}             \* "a", "80_a"

\* the configurations that declare one record
KeyConfigs(k) ==
    CASE k = "A"   -> {<<v>> : v \in GenericVals}
      [] k = "MX"  -> {<<[priority |-> p, servers |-> <<h>>]>> : p \in Prios, h \in {HostA, HostB}}
      [] k = "NS"  -> {<<[priority |-> p, servers |-> <<h>>]>> : p \in Prios, h \in {HostA, HostB}}
      [] k = "SRV" -> {<<[priority |-> q[1], weight |-> q[2], port |-> q[3], targets |-> <<t>>]>> :
                          q \in SRVDiscs, t \in KeyTargets}
      [] k = "CAA" -> {<<[flag |-> f, tag |-> t, value |-> v]>> :
                          f \in CAAFlags, t \in KeyTags, v \in KeyVals}

InitKey ==
    /\ kind \in DiffKinds
    /\ oldIn \in KeyConfigs(kind)
    /\ newIn \in KeyConfigs(kind)
    /\ res = NoRes
    /\ LifeIdle
    /\ cache = EmptyCache
    /\ now = 0
    /\ lastGet = NoGet
    /\ ConcIdle
    /\ ImpIdle
    /\ WrIdle

NextKey == DiffGeneric \/ DiffMX \/ DiffNS \/ DiffSRV \/ DiffCAA

SpecKey == InitKey /\ [][NextKey]_vars

-----------------------------------------------------------------------------
(* SpecListed: Read of a CAA resource whose record the provider lists with  *)
(* structured flag and tag, or with all three in the content.               *)

\* "letsencrypt.org"
ValLetsEncrypt == <<108, 101, 116, 115, 101, 110, 99, 114, 121, 112, 116, Dot, 111, 114, 103>>

\* first tokens of a content: "0", "128", and "x", which is no number
ListedFlagToks == {<<48>>, <<49, 50, 56>>, <<120>>}

\* the rest of a content: x, "x", x., "x.", "x (no closing quote), "x y", and the
\* quoted "letsencrypt.org"
ListedValues ==
    {ValX, <<Quote>> \o ValX \o <<Quote>>, ValX \o <<Dot>>,
     <<Quote>> \o ValX \o <<Dot, Quote>>, <<Quote>> \o ValX,
     <<Quote>> \o ValX \o <<Space>> \o ValY \o <<Quote>>,
     <<Quote>> \o ValLetsEncrypt \o <<Quote>>}

\* one or two spaces between the tokens
ListedSeps == {<<Space>>, <<Space, Space>>}

\* contents "flag tag value", and contents of fewer than three tokens
ListedContents ==
    {f \o sp \o TagIssue \o sp \o v : f \in ListedFlagToks, sp \in ListedSeps, v \in ListedValues}
    \cup {<<>>, ValX, <<48, Space>> \o TagIssue}

\* the CAA record of the resource as the listing of the provider may hold it
ListedCAA ==
    {DNSRecord("CAA", c, 0, 0, 0, 0, <<>>) : c \in ListedContents}
    \cup {DNSRecord("CAA", c, 0, 0, 0, f, t) :
            c \in {ValX, ValX \o <<Dot>>, <<48, Space>> \o TagIodef \o <<Space>> \o ValY},
            f \in CAAFlags, t \in {TagIssue, <<>>}}

\* the resource is in the state with its identifier, the provider holds its record
InitListed ==
    /\ strategy = "CAA"
    /\ \E rr \in ListedCAA : provider = {rr}
    /\ d = [id |-> CAAResourceID, cfg |-> <<>>]
    /\ cache = EmptyCache
    /\ now = 0
    /\ plan = NoPlan
    /\ lastOp = NoOp
    /\ nops = 0
    /\ nedits = 0
    /\ lastGet = NoGet
    /\ ConcIdle
    /\ ImpIdle
    /\ WrIdle
    /\ DiffIdle

NextListed == Read

SpecListed == InitListed /\ [][NextListed]_vars

-----------------------------------------------------------------------------
(* Properties.  Those of the diffs as pure functions are checked under      *)
(* SpecDiff, those of the zone cache under SpecCache, the others under Spec. *)

\* the key of a diffed record, as the diff of its strategy compares it
KeyOf(k, rec) ==
    CASE k = "A"   -> rec
      [] k = "MX"  -> <<rec.Priority, rec.Server>>
      [] k = "NS"  -> <<rec.Priority, rec.Server>>
      [] k = "SRV" -> SRVString(rec)
      [] k = "CAA" -> CAAString(rec)

KeysOf(k, recs) == [i \in 1..Len(recs) |-> KeyOf(k, recs[i])]

Monus(a, b) == IF a > b THEN a - b ELSE 0

\* two sequences hold the same elements the same number of times
IsPerm(s, t) == Len(s) = Len(t) /\ \A x \in Range(s) \cup Range(t) : Count(s, x) = Count(t, x)

PermsOf(k, cfg) == {c \in ConfigsOf(k) : IsPerm(FlatOf(k, c), FlatOf(k, cfg))}

\* the records a configuration of the lifecycle declares, one by one
Declared(s, cfg) ==
    IF s = "CNAME" THEN (IF cfg = <<>> THEN <<>> ELSE <<cfg>>) ELSE FlatOf(s, cfg)

\* the canonical key of a declared record: its type discriminators and its value,
\* a host name in its trailing-dot-free form
CanonKey(s, rec) ==
    CASE s = "A"     -> rec
      [] s = "MX"    -> <<rec.Priority, NormalizeDomain(rec.Server)>>
      [] s = "NS"    -> <<rec.Priority, NormalizeDomain(rec.Server)>>
      [] s = "SRV"   -> <<rec.Priority, rec.Weight, rec.Port, NormalizeDomain(rec.Target)>>
      [] s = "CAA"   -> <<rec.Flag, rec.Tag, rec.Value>>
      [] s = "CNAME" -> NormalizeDomain(rec)

CanonKeys(s, cfg) == {CanonKey(s, rec) : rec \in Range(Declared(s, cfg))}

SurgicalOld == <<[priority |-> 10, servers |-> <<HostA, HostB>>]>>

\* C1: an Update issues no provider add or remove call for a record whose canonical
\* key occurs in both the old and the new declared configuration; the MX update of
\* {10: [a, b]} to {10: [a, c]} issues one remove (b, 10), one add (c, 10), no more.
C1_UnchangedKeysUntouched ==
    lastOp.op = "Update" =>
        /\ \A i \in 1..Len(lastOp.calls) :
              ~ /\ CanonKey(strategy, lastOp.calls[i].decl) \in CanonKeys(strategy, lastOp.old)
                /\ CanonKey(strategy, lastOp.calls[i].decl) \in CanonKeys(strategy, lastOp.new)
        /\ (strategy = "MX" /\ lastOp.old = SurgicalOld /\ lastOp.new = SurgicalNew /\ ~lastOp.err)
              => lastOp.calls =
                    <<WriteCall("remove", HostWire("MX", HostB, 10), [Priority |-> 10, Server |-> HostB]),
                      WriteCall("add", HostWire("MX", HostC, 10), [Priority |-> 10, Server |-> HostC])>>

\* the surgical MX update has run to its end
C1_Witness ==
    /\ lastOp.op = "Update"
    /\ strategy = "MX"
    /\ lastOp.old = SurgicalOld
    /\ lastOp.new = SurgicalNew
    /\ ~lastOp.err
    /\ Len(lastOp.calls) = 2

\* C2: the update diff counts duplicates: toRemove holds each key
\* max(0, oldCount - newCount) times and toAdd holds it max(0, newCount - oldCount)
\* times (old = [A, A, B], new = [A, B, B] gives toRemove = [A], toAdd = [B]).
C2_DiffCountsDuplicates ==
    res.done =>
        LET o == KeysOf(kind, FlatOf(kind, oldIn))
            n == KeysOf(kind, FlatOf(kind, newIn))
            r == KeysOf(kind, res.toRemove)
            a == KeysOf(kind, res.toAdd)
        IN  \A key \in Range(o) \cup Range(n) \cup Range(r) \cup Range(a) :
                /\ Count(r, key) = Monus(Count(o, key), Count(n, key))
                /\ Count(a, key) = Monus(Count(n, key), Count(o, key))

IsWrite(e) == e \in {"add", "remove"}

IsCacheRead(e) == e \in {"hit", "miss"}

\* the place of the last provider write in the events of a handler
LastWrite(tr) == CHOOSE i \in 1..Len(tr) : IsWrite(tr[i]) /\ \A j \in (i + 1)..Len(tr) : ~IsWrite(tr[j])

\* C3: whenever Create, Update or Delete of any strategy returns success after at
\* least one provider write, the zone's cache entry has been removed after the last
\* write, before any cache read the operation performs afterwards and before it returns.
C3_InvalidateAfterLastWrite ==
    (lastOp.op \in {"Create", "Update", "Delete"} /\ ~lastOp.err /\ lastOp.calls /= <<>>) =>
        \E k \in (LastWrite(lastOp.trace) + 1)..Len(lastOp.trace) :
            /\ lastOp.trace[k] = "invalidate"
            /\ \A j \in (LastWrite(lastOp.trace) + 1)..(k - 1) : ~IsCacheRead(lastOp.trace[j])

\* a Create has written and invalidated the cache after its last write
C3_Witness ==
    /\ lastOp.op = "Create"
    /\ ~lastOp.err
    /\ lastOp.calls /= <<>>
    /\ lastOp.trace[Len(lastOp.trace)] = "invalidate"

\* C4: when Create returns success for a non-empty declared record set whose adds
\* the provider accepted, the resource is Present (its identifier is not empty),
\* whatever the zone cache held before, an unexpired entry of the zone included.
C4_CreateLeavesPresent ==
    ( /\ lastOp.op = "Create"
      /\ ~lastOp.err
      /\ lastOp.new /= <<>>
      /\ lastOp.calls /= <<>>
      /\ \A i \in 1..Len(lastOp.calls) : lastOp.calls[i].ok ) => d.id /= <<>>

\* no two declared records of the configuration have the same canonical key
DuplicateFree(s, cfg) == Cardinality(CanonKeys(s, cfg)) = Len(Declared(s, cfg))

\* C5: from a provider that holds the old declared set (duplicate-free), a successful
\* Update leaves the provider holding the new declared set, and the number of write
\* calls it issued is |old \ new| + |new \ old|.
C5_UpdateConvergesMinimally ==
    ( /\ lastOp.op = "Update"
      /\ ~lastOp.err
      /\ lastOp.provBefore = ProviderOf(strategy, lastOp.old)
      /\ DuplicateFree(strategy, lastOp.old)
      /\ DuplicateFree(strategy, lastOp.new) ) =>
        /\ provider = ProviderOf(strategy, lastOp.new)
        /\ Len(lastOp.calls) =
              Cardinality(CanonKeys(strategy, lastOp.old) \ CanonKeys(strategy, lastOp.new))
            + Cardinality(CanonKeys(strategy, lastOp.new) \ CanonKeys(strategy, lastOp.old))

\* an Update that changed the declared set has converged with as many calls as differ
C5_Witness ==
    /\ lastOp.op = "Update"
    /\ ~lastOp.err
    /\ lastOp.provBefore = ProviderOf(strategy, lastOp.old)
    /\ provider = ProviderOf(strategy, lastOp.new)
    /\ provider /= lastOp.provBefore
    /\ DuplicateFree(strategy, lastOp.old)
    /\ DuplicateFree(strategy, lastOp.new)
    /\ Len(lastOp.calls) = 2

\* C6: permuting the old and/or the new declared records changes neither the
\* contents nor the order of toRemove and toAdd, for every strategy's diff.
C6_DiffOrderIndependent ==
    res.done =>
        \A o2 \in PermsOf(kind, oldIn), n2 \in PermsOf(kind, newIn) :
            /\ DiffOf(kind, o2, n2).toRemove = res.toRemove
            /\ DiffOf(kind, o2, n2).toAdd = res.toAdd

\* the diff of every collection of the strategy against itself is empty
SelfDiffEmpty(s) ==
    \A G \in LifeConfigs(s) \cup {<<>>} :
        DiffOf(s, G, G).toRemove = <<>> /\ DiffOf(s, G, G).toAdd = <<>>

\* the handler failed at the zone listing of the Read that closes it
FailedAtClosingRead ==
    /\ strategy \in {"A", "SRV", "CAA"}
    /\ lastOp.trace /= <<>>
    /\ lastOp.trace[Len(lastOp.trace)] = "fetch_err"

C8_DiffSwapSymmetric ==
    res.done =>
        /\ DiffOf(kind, newIn, oldIn).toRemove = res.toAdd
        /\ DiffOf(kind, newIn, oldIn).toAdd = res.toRemove
        /\ Len(DiffOf(kind, newIn, oldIn).toRemove) = Len(res.toAdd)
        /\ Len(DiffOf(kind, newIn, oldIn).toAdd) = Len(res.toRemove)

\* a diff of two MX configurations that differ in priority only has been computed
C8_Witness ==
    /\ res.done
    /\ kind = "MX"
    /\ res.toAdd /= <<>>
    /\ res.toRemove /= <<>>
    /\ \E i \in 1..Len(res.toAdd), j \in 1..Len(res.toRemove) :
          /\ res.toAdd[i].Server = res.toRemove[j].Server
          /\ res.toAdd[i].Priority /= res.toRemove[j].Priority

\* the strategies whose list has a diff-suppress function that compares multisets
ListStrategies == {"A", "MX", "NS", "SRV"}

\* the values of the list that key k belongs to: the records of a generic resource,
\* the servers or targets of the block the key names (none when there is no such block)
ListAt(s, cfg, k) ==
    IF s = "A" THEN cfg
    ELSE LET i == Atoi(Split(k, Dot)[2]) + 1
         IN  IF i > Len(cfg) THEN <<>>
             ELSE IF s = "SRV" THEN cfg[i].targets ELSE cfg[i].servers

\* the key belongs to a list that both configurations have
InBoth(s, old, new, k) ==
    s = "A" \/ (Atoi(Split(k, Dot)[2]) < Len(old) /\ Atoi(Split(k, Dot)[2]) < Len(new))

\* the block without its list
Discriminators(s, block) ==
    IF s = "SRV" THEN <<block.priority, block.weight, block.port>> ELSE <<block.priority>>

\* new differs from old at most in the order of the values of its lists
ReorderOnly(s, old, new) ==
    IF s = "A" THEN IsPerm(old, new)
    ELSE /\ Len(old) = Len(new)
         /\ \A i \in 1..Len(old) :
               /\ Discriminators(s, old[i]) = Discriminators(s, new[i])
               /\ IsPerm(FieldOf(old[i], IF s = "SRV" THEN StrTargets ELSE StrServers),
                         FieldOf(new[i], IF s = "SRV" THEN StrTargets ELSE StrServers))

\* C9: for an existing resource a change that only reorders the values of a records,
\* servers or targets list is suppressed by the diff-suppress function and, if Update
\* runs anyway, causes no provider add or remove call; the function returns false
\* whenever the identifier is empty or the old and new multisets differ.
C9_ReorderSuppressed ==
    /\ (plan.done /\ strategy \in ListStrategies) =>
          \A k \in SuppressKeys(strategy) :
              /\ (d.id /= <<>> /\ ReorderOnly(strategy, d.cfg, plan.new)
                      /\ InBoth(strategy, d.cfg, plan.new, k)) => plan.suppressed[k]
              /\ d.id = <<>> => ~plan.suppressed[k]
              /\ ~IsPerm(ListAt(strategy, d.cfg, k), ListAt(strategy, plan.new, k))
                    => ~plan.suppressed[k]
    /\ (lastOp.op = "Update" /\ strategy \in ListStrategies
            /\ ReorderOnly(strategy, lastOp.old, lastOp.new)) => lastOp.calls = <<>>

\* a reordering of the servers of an existing MX resource that the diff-suppress
\* function suppresses has been run by Update
C9_Witness ==
    /\ strategy = "MX"
    /\ lastOp.op = "Update"
    /\ lastOp.idBefore /= <<>>
    /\ lastOp.old /= lastOp.new
    /\ ReorderOnly(strategy, lastOp.old, lastOp.new)
    /\ lastOp.calls = <<>>
    /\ \E k \in SuppressKeys(strategy) :
          SuppressOf(strategy, k, [id |-> lastOp.idBefore, cfg |-> lastOp.old], lastOp.new)

\* C10: a Get of a zone after a Set of it, with no Set, Invalidate or Clear between,
\* returns the data and a hit while now - storedAt <= 30 s, and a miss once
\* now - storedAt > 30 s or after Invalidate; the Get that finds an expired entry
\* removes it from the cache.
C10_GetWithinTTL ==
    lastGet.call = "Get" =>
        IF lastGet.zone \in DOMAIN lastGet.sets
        THEN IF now - lastGet.sets[lastGet.zone].At <= 30
             THEN lastGet.hit /\ lastGet.data = lastGet.sets[lastGet.zone].Data
             ELSE ~lastGet.hit /\ lastGet.zone \notin DOMAIN cache
        ELSE ~lastGet.hit

\* a Get has served an entry whose age is the TTL
C10_Witness ==
    /\ lastGet.call = "Get"
    /\ lastGet.zone \in DOMAIN lastGet.sets
    /\ lastGet.hit
    /\ now - lastGet.sets[lastGet.zone].At = 30

-----------------------------------------------------------------------------
(* The cached client under concurrent callers (SpecConc).                  *)

\* C11: the cache map is changed only by a goroutine that holds the exclusive
\* (write) lock of the cache: whenever a goroutine is at a statement that changes
\* the map it is the writer of ZoneCache.mutex, and no other goroutine is at a
\* statement that reads or changes the map.
C11_MapMutatedUnderWriteLock ==
    \A t \in Threads :
        threads[t].pc \in MapWritePcs =>
            /\ mu.zc.w = t
            /\ ~Racing(t, MapReadPcs \cup MapWritePcs)

\* two callers of GetRecordsWithCache have both found the expired entry of the
\* zone and are both at its delete, holding read locks only
C11_Witness ==
    \E t \in Threads : \E u \in Threads \ {t} :
        /\ threads[t].pc = "delete" /\ threads[u].pc = "delete"
        /\ threads[t].zone = threads[u].zone
        /\ mu.zc.r = {t, u}

\* the goroutines whose fetch is in flight
Fetching == {t \in Threads : threads[t].pc = "fetch"}

\* the goroutines that keep u from the lock it is waiting for
Blockers(u) ==
    CASE threads[u].pc = "g_rlock" -> {mu.global.w} \ {0}
      [] threads[u].pc = "zc_rlock" -> {mu.zc.w} \ {0}
      [] threads[u].pc = "g_lock" -> (mu.global.r \cup {mu.global.w}) \ {0}
      [] threads[u].pc = "zc_lock" -> (mu.zc.r \cup {mu.zc.w}) \ {0}
      [] OTHER -> {}

\* C12: while the provider fetch of GetRecordsWithCache is in flight the caller
\* holds neither globalCacheMutex nor ZoneCache.mutex, so no goroutine waiting for
\* a lock (a read, an Invalidate, a Clear) waits for a fetching goroutine; and the
\* fetched bytes are stored by a caller that is the writer of both mutexes.
C12_NoLockHeldDuringFetch ==
    /\ \A t \in Fetching : ~Holds(mu.global, t) /\ ~Holds(mu.zc, t)
    /\ \A u \in Threads : Blockers(u) \cap Fetching = {}
    /\ \A t \in Threads : threads[t].pc = "set" => mu.global.w = t /\ mu.zc.w = t

\* a fetch of the zone is in flight while another goroutine, holding both write
\* locks, is at the delete of InvalidateZoneCache for the same zone
C12_Witness ==
    \E t \in Threads : \E u \in Threads \ {t} :
        /\ threads[t].pc = "fetch"
        /\ threads[u].pc = "invalidate"
        /\ threads[u].zone = threads[t].zone
        /\ mu.global.w = u /\ mu.zc.w = u

\* the calls of t and u that have returned were two GetRecordsWithCache of one
\* zone that both missed and both fetched; the call of u began next after, and
\* during, the call of t, and u was in no call when the call of t began
ConcurrentMisses(t, u) ==
    /\ t /= u
    /\ threads[t].pc = "done" /\ threads[u].pc = "done"
    /\ threads[t].op = "GetRecordsWithCache" /\ threads[u].op = "GetRecordsWithCache"
    /\ threads[t].zone = threads[u].zone
    /\ ~threads[t].hit /\ ~threads[u].hit
    /\ ~threads[t].err /\ ~threads[u].err
    /\ threads[u].start = threads[t].start + 1
    /\ t \in threads[u].live
    /\ u \notin threads[t].live

\* no other goroutine has called the cached client since the call of t began
QuietSince(t, u) ==
    \A v \in Threads \ {t, u} :
        /\ ~InCall(v)
        /\ threads[v].op = "none" \/ (threads[v].start < threads[t].start /\ v \notin threads[t].live)

\* C13: when two GetRecordsWithCache calls miss on the same zone concurrently, each
\* returns the bytes it fetched itself; afterwards the cache holds the entry of the
\* zone with the bytes of one of the two fetches, and the entries of the other
\* zones are as they were when the first of the two calls began.
C13_ConcurrentMissesLastSetWins ==
    \A t \in Threads : \A u \in Threads :
        (ConcurrentMisses(t, u) /\ QuietSince(t, u)) =>
            LET zone == threads[t].zone
                c0 == threads[t].c0
            IN  /\ threads[t].ret = threads[t].resp
                /\ threads[u].ret = threads[u].resp
                /\ zone \in DOMAIN cache
                /\ cache[zone].Data \in {threads[t].resp, threads[u].resp}
                /\ DOMAIN cache \ {zone} = DOMAIN c0 \ {zone}
                /\ \A z \in DOMAIN cache \ {zone} : cache[z] = c0[z]

\* two concurrent misses whose fetches brought different bytes, with an entry of
\* another zone in the cache
C13_Witness ==
    \E t \in Threads : \E u \in Threads :
        /\ ConcurrentMisses(t, u) /\ QuietSince(t, u)
        /\ threads[t].resp /= threads[u].resp
        /\ DOMAIN cache \ {threads[t].zone} /= {}

-----------------------------------------------------------------------------
(* The cached client when the provider fails (SpecCache).                  *)

-----------------------------------------------------------------------------
(* The handlers and the identifier (Spec).                                 *)

\* the provider has answered a remove call of the handler with "record not found"
NotFoundReported(trace) == \E i \in 1..Len(trace) : trace[i] = "not_found"

\* C15: a remove call that the provider answers with "record not found", in Delete
\* or in the remove phase of Update, counts as a success: the handler returns no
\* error, and after such a Delete the resource is Absent.
C15_NotFoundRemoveIsSuccess ==
    (lastOp.op \in {"Delete", "Update"} /\ NotFoundReported(lastOp.trace)) =>
        /\ ~lastOp.err
        /\ lastOp.op = "Delete" => d = NoD

\* a Delete whose second remove names a record that its first remove has already
\* taken from the provider
C15_Witness ==
    /\ lastOp.op = "Delete"
    /\ NotFoundReported(lastOp.trace)
    /\ Len(lastOp.calls) = 2
    /\ lastOp.calls[1].ok
    /\ lastOp.calls[2].rec = lastOp.calls[1].rec

\* the records of a listing that belong to the resource: its name and its type
\* (the generic strategy of the model is the A record)
OwnRecords(data) ==
    SelectSeq(data.Rrs, LAMBDA r : r.Subname = NameN /\ r.Rectype = strategy)

\* the canonical key of a listed record
ListedKey(s, r) ==
    CASE s = "A"     -> r.Content
      [] s = "MX"    -> <<r.Prio, NormalizeDomain(r.Content)>>
      [] s = "NS"    -> <<r.Prio, NormalizeDomain(r.Content)>>
      [] s = "SRV"   -> <<r.Prio, r.Weight, r.Port, NormalizeDomain(r.Content)>>
      [] s = "CAA"   -> <<r.Flag, r.Tag, r.Content>>
      [] s = "CNAME" -> NormalizeDomain(r.Content)

ListedKeys(s, rrs) == {ListedKey(s, rrs[i]) : i \in 1..Len(rrs)}

\* C16: a Read fails only when its fetch fails.  A Read whose listing (the bytes of
\* the zone it was served, which the cache holds when it returns) has no record of
\* the name and type of the resource clears the identifier, so the resource is
\* Absent; a Read whose listing has one or more keeps the identifier and sets the
\* attributes from the listed records (CNAME: from the first of them).
C16_ReadFollowsListing ==
    lastOp.op = "Read" =>
        /\ lastOp.err <=> (\E i \in 1..Len(lastOp.trace) : lastOp.trace[i] = "fetch_err")
        /\ ~lastOp.err =>
              /\ ZoneZ \in DOMAIN cache
              /\ LET own == OwnRecords(cache[ZoneZ].Data)
                 IN  /\ own = <<>> => d = NoD
                     /\ own /= <<>> =>
                           /\ d.id = lastOp.idBefore
                           /\ d.id /= <<>>
                           /\ IF strategy = "CNAME"
                              THEN CanonKeys(strategy, d.cfg) = {ListedKey(strategy, own[1])}
                              ELSE CanonKeys(strategy, d.cfg) = ListedKeys(strategy, own)

\* a Read of a Present resource whose listing has records of other names only
C16_Witness ==
    /\ lastOp.op = "Read"
    /\ ~lastOp.err
    /\ lastOp.idBefore /= <<>>
    /\ ZoneZ \in DOMAIN cache
    /\ OwnRecords(cache[ZoneZ].Data) = <<>>
    /\ cache[ZoneZ].Data.Rrs /= <<>>
    /\ d = NoD

\* the step is a Read of the resource
ReadStep == nops' = nops + 1 /\ lastOp'.op = "Read"

\* the Read that follows the Read of the step, at time t2, the provider unchanged
SecondRead(t2, fetch) ==
    LET x == [prov |-> provider', cache |-> cache', calls |-> <<>>, trace |-> <<>>,
              err |-> FALSE]
    IN  ReadOf(strategy, x, d', t2, fetch)

\* C17: a Read issues no add and no remove, and changes the cache at most in the
\* entry of its own zone, which it stores on a miss.  A second Read of the resource,
\* the provider unchanged, leaves the resource with the same identifier and the same
\* records, and is served by the cache, without fetch, while the entry that served
\* the first Read is within its TTL.
C17_ReadIdempotent ==
    [][ReadStep =>
        /\ lastOp'.calls = <<>>
        /\ provider' = provider
        /\ DOMAIN cache' \ {ZoneZ} = DOMAIN cache \ {ZoneZ}
        /\ \A z \in DOMAIN cache' \ {ZoneZ} : cache'[z] = cache[z]
        /\ cache' /= cache =>
              /\ "miss" \in Range(lastOp'.trace)
              /\ ZoneZ \in DOMAIN cache' =>
                    "set" \in Range(lastOp'.trace) /\ cache'[ZoneZ].Timestamp = now
        /\ (~lastOp'.err /\ d'.id /= <<>>) =>
              \A t2 \in {now, cache'[ZoneZ].Timestamp + TTL, now + TTL + 1} :
                 \A rev \in BOOLEAN :
                    LET r2 == SecondRead(t2, [ok |-> TRUE, rev |-> rev])
                        d2 == SaveState("Read", r2)
                    IN  /\ ~r2.x.err
                        /\ d2.id = d'.id
                        /\ CanonKeys(strategy, d2.cfg) = CanonKeys(strategy, d'.cfg)
                        /\ t2 - cache'[ZoneZ].Timestamp <= TTL => ~Fetched(r2.x.trace)
    ]_vars

\* the second of two Reads, served by the entry the first one stored
C17_Witness ==
    /\ lastOp.op = "Read"
    /\ nops = 2
    /\ lastOp.trace = <<"hit">>
    /\ lastOp.provBefore = provider
    /\ d.id /= <<>>

-----------------------------------------------------------------------------
(* The identifier of a resource and Import (Spec, SpecImport).             *)

\* C18: Create of every dedicated resource sets the identifier to exactly "zone/name",
\* which ParseResourceID takes apart into that zone and that name.
C18_CreateSetsZoneSlashName ==
    (lastOp.op = "Create" /\ d.id /= <<>>) =>
        /\ d.id = ZoneZ \o <<Slash>> \o NameN
        /\ ParseResourceID(d.id) = [zone |-> ZoneZ, name |-> NameN, err |-> FALSE]

\* a Create of an MX resource that has set "z/n"
C18_Witness ==
    /\ lastOp.op = "Create"
    /\ strategy = "MX"
    /\ ~lastOp.err
    /\ d.id = ResourceID

\* the number of "/" in an identifier
Slashes(id) == Cardinality({i \in 1..Len(id) : id[i] = Slash})

\* the position of the first "/" of an identifier that has one
FirstSlash(id) == CHOOSE i \in 1..Len(id) : id[i] = Slash /\ \A j \in 1..(i - 1) : id[j] /= Slash

BeforeFirstSlash(id) == SubSeq(id, 1, FirstSlash(id) - 1)
AfterFirstSlash(id) == SubSeq(id, FirstSlash(id) + 1, Len(id))

\* the Read that Import of a well-formed identifier performs: a Read, at the time
\* of the Import, of the resource data with that identifier
ImportedRead(fetch) ==
    LET x0 == [prov |-> lastOp.provBefore, cache |-> EmptyCache, calls |-> <<>>,
               trace |-> <<>>, err |-> FALSE]
    IN  ReadOf(strategy, x0, [id |-> imp.id, cfg |-> <<>>], now, fetch)

\* C19: Import of an identifier that does not split on "/" into exactly two parts
\* (it has no "/" or more than one) fails without a provider call, a cache access or
\* a change of the resource data, zone and name unset.  Import of any other
\* identifier sets zone to the part before the "/" and name to the part after it and
\* performs Read: for the identifier "z/n" of the resource its outcome is that of Read.
C19_ImportNeedsTwoParts ==
    imp.done =>
        /\ Slashes(imp.id) /= 1 =>
              /\ lastOp.err
              /\ lastOp.calls = <<>> /\ lastOp.trace = <<>>
              /\ imp.zone = <<>> /\ imp.name = <<>>
              /\ cache = EmptyCache
              /\ d = [id |-> imp.id, cfg |-> <<>>]
        /\ Slashes(imp.id) = 1 =>
              /\ imp.zone = BeforeFirstSlash(imp.id)
              /\ imp.name = AfterFirstSlash(imp.id)
              /\ lastOp.trace /= <<>>
              /\ lastOp.calls = <<>>
              /\ imp.id = ResourceID =>
                    \E fetch \in Fetches :
                        LET r == ImportedRead(fetch)
                        IN  /\ d = r.d
                            /\ cache = r.x.cache
                            /\ lastOp.err = r.x.err
                            /\ lastOp.trace = r.x.trace

\* an Import of an identifier with two "/" has failed
C19_Witness ==
    /\ imp.done
    /\ Slashes(imp.id) = 2
    /\ lastOp.err
    /\ imp.zone = <<>>

\* C20: Import splits the identifier at its first "/": the zone is what stands
\* before it and the name everything after it, also when the identifier has more
\* than one "/".
C20_ImportSplitsAtFirstSlash ==
    (imp.done /\ Slashes(imp.id) >= 1) =>
        /\ imp.parsed
        /\ imp.zone = BeforeFirstSlash(imp.id)
        /\ imp.name = AfterFirstSlash(imp.id)

\* an Import of an identifier with one "/" has set zone and name
C20_Witness ==
    /\ imp.done
    /\ imp.id = ResourceID
    /\ imp.zone = ZoneZ
    /\ imp.name = NameN

-----------------------------------------------------------------------------
(* Validation, provider errors and the stopping of a handler (Spec).        *)

\* the declared configuration holds no value: an empty list of records or blocks,
\* or the empty cname
NothingDeclared(cfg) == cfg = <<>>

\* C21: for every record type, a Create whose declared configuration holds no value
\* (or the empty value where exactly one is required) fails with a validation
\* error before any provider call.
C21_EmptyCreateRejected ==
    (lastOp.op = "Create" /\ NothingDeclared(lastOp.new)) =>
        /\ lastOp.err
        /\ lastOp.calls = <<>>

\* a CNAME Create of the empty cname that has sent an add to the provider
C21_Witness ==
    /\ lastOp.op = "Create"
    /\ strategy = "CNAME"
    /\ NothingDeclared(lastOp.new)
    /\ Len(lastOp.calls) = 1
    /\ lastOp.calls[1].op = "add"

\* the response carries result "error", at the top level or for a domain
CarriesError(body) == body.json /\ (body.result = "error" \/ ErrorDomains(body) /= <<>>)

\* the error codes and texts the response carries, of the top level and of the domains
ProviderErrors(body) ==
    (IF body.result = "error"
     THEN {[error_code |-> body.error_code, error_text |-> body.error_text]} ELSE {})
    \cup {[error_code |-> ErrorDomains(body)[i].error_code,
           error_text |-> ErrorDomains(body)[i].error_text] : i \in 1..Len(ErrorDomains(body))}

\* the message holds the text and, where there is one, the code of an error of the response
CarriesCodeAndText(msg, body) ==
    \E e \in ProviderErrors(body) :
        /\ e.error_text \in Range(msg)
        /\ e.error_code /= "" => e.error_code \in Range(msg)

\* C22: whenever the response to a write call carries result "error", at the top
\* level or for a domain, the handler returns a failure that names the domain and
\* carries the provider's error code and text; the write never counts as done.
C22_ErrorResponseSurfaced ==
    (wr.done /\ CarriesError(wr.resp)) =>
        /\ lastOp.err
        /\ "z" \in Range(wr.msg)
        /\ CarriesCodeAndText(wr.msg, wr.resp)

\* a domain error with nested error_params, which passes doRequest and is reported
\* by CheckAPIResponseForErrors with the domain, the text and the code
C22_Witness ==
    /\ wr.done
    /\ wr.resp.result = "success"
    /\ ErrorDomains(wr.resp) /= <<>>
    /\ lastOp.err
    /\ ~lastOp.calls[1].ok
    /\ wr.msg = <<"API operation failed: ", "Domain ", "z", ": ", ErrorText,
                  " (Error Code: ", "NO_SUCH_CODE", ")">>

\* the part of C22 that every handler keeps: an error response fails the handler
\* at the call and the record is not taken as written
ErrorResponseFails ==
    (wr.done /\ CarriesError(wr.resp)) =>
        /\ lastOp.err
        /\ Len(lastOp.calls) = 1
        /\ ~lastOp.calls[1].ok
        /\ provider = lastOp.provBefore

\* C23: whenever a response cannot be decoded into the expected JSON shape, the
\* operation that received it fails; an undecodable write response never counts
\* as a successful write.
C23_UndecodableResponseFails ==
    (wr.done /\ ~wr.resp.json) => lastOp.err

\* a Create whose first add was answered with a body that is no JSON document
C23_Witness ==
    /\ wr.done
    /\ wr.resp = Garbled
    /\ lastOp.op = "Create"
    /\ Len(lastOp.calls) >= 1

\* C24: within one Create, Update, Delete or Read, once a provider call fails the
\* handler returns that failure at once: the failed call is the last call of the
\* handler, it is issued once, and nothing follows a failed fetch of the listing.
C24_ReturnsAtFirstFailure ==
    lastOp.op \in {"Create", "Update", "Delete", "Read"} =>
        /\ \A i \in 1..Len(lastOp.calls) :
              ~lastOp.calls[i].ok => (lastOp.err /\ i = Len(lastOp.calls))
        /\ \A i \in 1..Len(lastOp.trace) :
              lastOp.trace[i] = "fetch_err" => (lastOp.err /\ i = Len(lastOp.trace))

\* an Update that had two calls to issue and returned at the failure of the first
C24_Witness ==
    /\ strategy /= "CNAME"
    /\ lastOp.op = "Update"
    /\ lastOp.err
    /\ Len(lastOp.calls) = 1
    /\ ~lastOp.calls[1].ok
    /\ Len(DiffOf(strategy, lastOp.old, lastOp.new).toRemove)
         + Len(DiffOf(strategy, lastOp.old, lastOp.new).toAdd) >= 2

-----------------------------------------------------------------------------
(* Trailing dots, canonical keys and the content of a CAA record.           *)

\* a configuration with every host name (MX and NS servers, SRV targets, the CNAME
\* target) in its trailing-dot-free form
DotFree(s, cfg) ==
    CASE s \in {"MX", "NS"} ->
           [i \in 1..Len(cfg) |->
               [cfg[i] EXCEPT !.servers = [j \in 1..Len(@) |-> NormalizeDomain(@[j])]]]
      [] s = "SRV" ->
           [i \in 1..Len(cfg) |->
               [cfg[i] EXCEPT !.targets = [j \in 1..Len(@) |-> NormalizeDomain(@[j])]]]
      [] s = "CNAME" -> NormalizeDomain(cfg)
      [] OTHER -> cfg

\* the change from old to new only adds or removes trailing dots of host names
DotOnlyChange(s, old, new) ==
    /\ s \in {"MX", "NS", "SRV", "CNAME"}
    /\ old /= new
    /\ DotFree(s, old) = DotFree(s, new)

\* C25: the diff of an Update compares host names (MX and NS servers, SRV targets,
\* the CNAME target) in trailing-dot-free form: a change that only adds or removes
\* a trailing dot gives empty toRemove and toAdd and no provider write call.
C25_TrailingDotChangeIsNoChange ==
    (lastOp.op = "Update" /\ DotOnlyChange(strategy, lastOp.old, lastOp.new)) =>
        /\ lastOp.calls = <<>>
        /\ strategy /= "CNAME" =>
              /\ DiffOf(strategy, lastOp.old, lastOp.new).toRemove = <<>>
              /\ DiffOf(strategy, lastOp.old, lastOp.new).toAdd = <<>>

\* an MX Update from server "a" to server "a." that has removed and added the record
C25_Witness ==
    /\ lastOp.op = "Update"
    /\ strategy = "MX"
    /\ DotOnlyChange(strategy, lastOp.old, lastOp.new)
    /\ ~lastOp.err
    /\ Len(lastOp.calls) = 2
    /\ lastOp.calls[1].op = "remove"
    /\ lastOp.calls[2].op = "add"
    /\ lastOp.calls[1].rec = lastOp.calls[2].rec

\* the key string the diff of a strategy compares two records by (SRV and CAA);
\* the generic diff compares the values, the MX and NS diffs the fields
KeyString(k, rec) ==
    CASE k = "SRV" -> SRVString(rec)
      [] k = "CAA" -> CAAString(rec)
      [] OTHER     -> rec

\* C26: the diff treats two records of a type as the same if and only if all their
\* discriminators and their value are equal: the key strings (CAA "flag_tag_value",
\* SRV "priority_weight_port_target") are equal exactly when the field tuples are.
C26_SameIffFieldsEqual ==
    res.done =>
        LET a == FlatOf(kind, oldIn)[1]
            b == FlatOf(kind, newIn)[1]
        IN  /\ (res.toRemove = <<>> /\ res.toAdd = <<>>) <=> (a = b)
            /\ (KeyString(kind, a) = KeyString(kind, b)) <=> (a = b)

\* the tag of a CAA record holds no '_', as every tag of letters and digits
PlainTag(k, rec) == k = "CAA" => Underscore \notin Range(rec.Tag)

\* C26, amended: the diff treats two records as the same if and only if all their
\* fields are equal, and their key strings are equal exactly when the fields are,
\* provided the tags of CAA records hold no '_'; values and targets may hold it.
C26_SameIffFieldsEqualPlainTags ==
    res.done =>
        LET a == FlatOf(kind, oldIn)[1]
            b == FlatOf(kind, newIn)[1]
        IN  (PlainTag(kind, a) /\ PlainTag(kind, b)) =>
               /\ (res.toRemove = <<>> /\ res.toAdd = <<>>) <=> (a = b)
               /\ (KeyString(kind, a) = KeyString(kind, b)) <=> (a = b)

\* two CAA records with plain tags that differ only in a value holding '_': the
\* diff removes the one and adds the other
C26_Witness ==
    /\ res.done
    /\ kind = "CAA"
    /\ PlainTag(kind, FlatOf(kind, oldIn)[1])
    /\ FlatOf(kind, oldIn)[1].Tag = FlatOf(kind, newIn)[1].Tag
    /\ FlatOf(kind, oldIn)[1].Flag = FlatOf(kind, newIn)[1].Flag
    /\ Underscore \in Range(FlatOf(kind, oldIn)[1].Value)
    /\ FlatOf(kind, oldIn)[1].Value /= FlatOf(kind, newIn)[1].Value
    /\ Len(res.toRemove) = 1
    /\ Len(res.toAdd) = 1

\* a value without the pair of double quotes around it
Unquoted(v) ==
    IF Len(v) >= 2 /\ v[1] = Quote /\ v[Len(v)] = Quote THEN SubSeq(v, 2, Len(v) - 1) ELSE v

\* the record lists neither flag nor tag as a field
Unstructured(rr) == rr.Flag = 0 /\ rr.Tag = <<>>

\* the content holds a number, a tag and a value, separated by white space
Combined(content) == Len(Fields(content)) >= 3 /\ IsDigits(Fields(content)[1])

\* C27: Read of a CAA record that the provider lists without structured flag and
\* tag (flag 0, empty tag) parses the content by white space into flag, tag and
\* value and removes the double quotes around the value (0 issue "letsencrypt.org"
\* gives 0, issue, letsencrypt.org); a record with structured fields keeps them and
\* its content is the value.  The value is stored in trailing-dot-free form.
C27_CAAContentParsed ==
    (lastOp.op = "Read" /\ ~lastOp.err) =>
        \A rr \in provider :
            /\ (Unstructured(rr) /\ Combined(rr.Content)) =>
                  d.cfg = <<[flag  |-> Atoi(Fields(rr.Content)[1]),
                             tag   |-> Fields(rr.Content)[2],
                             value |-> NormalizeDomain(Unquoted(JoinSpace(
                                          SubSeq(Fields(rr.Content), 3, Len(Fields(rr.Content))))))]>>
            /\ ~Unstructured(rr) =>
                  d.cfg = <<[flag |-> rr.Flag, tag |-> rr.Tag,
                             value |-> NormalizeDomain(rr.Content)]>>

\* the example: the content 0 issue "letsencrypt.org" read as 0, issue, letsencrypt.org
C27_Witness ==
    /\ lastOp.op = "Read"
    /\ ~lastOp.err
    /\ provider = {DNSRecord("CAA", <<48, Space>> \o TagIssue \o <<Space, Quote>>
                                     \o ValLetsEncrypt \o <<Quote>>, 0, 0, 0, 0, <<>>)}
    /\ d.cfg = <<[flag |-> 0, tag |-> TagIssue, value |-> ValLetsEncrypt]>>

-----------------------------------------------------------------------------
(* The empty Update, the cache after a write, and the age of a hit.         *)

\* C28: an Update whose new declared record set is empty removes every old record
\* of the resource from the provider and clears the identifier: the resource is
\* Absent.
C28_EmptyUpdateClearsResource ==
    (lastOp.op = "Update" /\ NothingDeclared(lastOp.new) /\ ~lastOp.err) =>
        /\ \A rr \in provider : rr.Subname /= NameN
        /\ d = NoD

\* a CNAME Update to the empty cname that has removed the record of the old one
C28_Witness ==
    /\ lastOp.op = "Update"
    /\ strategy = "CNAME"
    /\ NothingDeclared(lastOp.new)
    /\ ~lastOp.err
    /\ Len(lastOp.calls) = 1
    /\ lastOp.calls[1].op = "remove"
    /\ provider = {}
    /\ d.id = ResourceID

\* the number of provider writes of the handler that succeeded
OkWrites(calls) == Cardinality({i \in 1..Len(calls) : calls[i].ok})

\* the place of the k-th provider write in the events of a handler
WritePos(tr, k) ==
    CHOOSE i \in 1..Len(tr) :
        IsWrite(tr[i]) /\ Cardinality({j \in 1..i : IsWrite(tr[j])}) = k

\* the entry of the zone, if the cache c holds one, was stored after the k-th write
StoredAfterWrite(c, tr, k) ==
    ZoneZ \in DOMAIN c => \E e \in (WritePos(tr, k) + 1)..Len(tr) : tr[e] = "set"

\* the step is the return of a Create, Update or Delete that has made at least one
\* successful provider write
ReturnAfterWrite ==
    /\ nops' = nops + 1
    /\ lastOp'.op \in {"Create", "Update", "Delete"}
    /\ OkWrites(lastOp'.calls) >= 1

\* C29: when Create, Update or Delete returns, with or without an error, after at
\* least one successful provider write against the zone, the cache holds no entry of
\* the zone that was stored before that write.
C29_NoEntryFromBeforeWrite ==
    [][ReturnAfterWrite =>
           StoredAfterWrite(cache', lastOp'.trace, OkWrites(lastOp'.calls))]_vars

\* an Update that removed one record, failed at its second call and returned with
\* the entry that another resource's read had stored before
C29_Witness ==
    /\ lastOp.op = "Update"
    /\ lastOp.err
    /\ Len(lastOp.calls) = 2
    /\ lastOp.calls[1].ok
    /\ ~lastOp.calls[2].ok
    /\ ZoneZ \in DOMAIN cache
    /\ \A e \in 1..Len(lastOp.trace) : lastOp.trace[e] /= "set"

\* C30: every entry of the cache is stored with a TTL of exactly 30 seconds, so the
\* bytes a hit returns were stored at most 30 seconds earlier, whoever stored them:
\* also an entry that a reader stored after a writer's invalidation, from a fetch
\* begun before it, is served for no longer than that.
C30_HitAtMostThirtySecondsOld ==
    /\ \A z \in DOMAIN cache : cache[z].TTL = 30
    /\ (lastGet.call \in {"Get", "GetRecordsWithCache"} /\ lastGet.hit) =>
          /\ lastGet.zone \in DOMAIN lastGet.sets
          /\ now - lastGet.sets[lastGet.zone].At <= 30
          /\ lastGet.data = lastGet.sets[lastGet.zone].Data

\* the cached client has served an entry that was stored 30 seconds earlier
C30_Witness ==
    /\ lastGet.call = "GetRecordsWithCache"
    /\ lastGet.hit
    /\ lastGet.zone \in DOMAIN lastGet.sets
    /\ now - lastGet.sets[lastGet.zone].At = 30
    /\ cache[lastGet.zone].TTL = 30

-----------------------------------------------------------------------------

\* what Invalidate(zone) may do to the map c: the entry of zone is gone, every
\* other zone keeps its entry with its data and timestamp, no entry appears
OnlyZoneRemoved(c, after, zone) ==
    /\ DOMAIN after = DOMAIN c \ {zone}
    /\ \A z \in DOMAIN after : after[z] = c[z]
    /\ zone \notin DOMAIN c => after = c

\* C31: Invalidate(zone) removes only the entry of that zone, leaves the entry of
\* every other zone (data and timestamp) unchanged and changes nothing when the zone
\* has no entry; Clear removes the entries of all zones.
C31_InvalidateOnlyThatZone ==
    [][/\ (lastGet'.call = "Invalidate" /\ <<cache, lastGet>>' /= <<cache, lastGet>>)
            => OnlyZoneRemoved(cache, cache', lastGet'.zone)
       /\ (lastGet'.call = "Clear" /\ <<cache, lastGet>>' /= <<cache, lastGet>>)
            => DOMAIN cache' = {}]_vars

\* an Invalidate of one zone has left the older entry of the other zone in the map
C31_Witness ==
    /\ lastGet.call = "Invalidate"
    /\ lastGet.zone = ZoneZ
    /\ DOMAIN cache = {ZoneY}
    /\ cache[ZoneY].Timestamp < now
    /\ DOMAIN lastGet.sets = {ZoneY}

-----------------------------------------------------------------------------
(* The calls of Create, Update and Delete.                                  *)

\* the declared records the calls of a handler were issued for
DeclsOf(calls) == [i \in 1..Len(calls) |-> calls[i].decl]

\* every element of s occurs in t at least as often as in s
SubBag(s, t) == \A x \in Range(s) : Count(s, x) <= Count(t, x)

\* no event of the zone cache or of a provider listing comes before a write
NoLookupBeforeWrite(tr) ==
    \A i \in 1..Len(tr) : \A j \in (i + 1)..Len(tr) :
        IsWrite(tr[j]) => tr[i] \notin {"hit", "miss", "fetch", "fetch_err", "set"}

\* C32: Create issues exactly one provider add call per declared record and no remove
\* call, and consults neither the zone cache nor the provider's listing before its
\* writes; a Create that returns at a failed call has issued one add for each of some
\* of the declared records.
C32_CreateAddsEachDeclaredOnce ==
    lastOp.op = "Create" =>
        /\ \A i \in 1..Len(lastOp.calls) : lastOp.calls[i].op = "add"
        /\ NoLookupBeforeWrite(lastOp.trace)
        /\ SubBag(DeclsOf(lastOp.calls), Declared(strategy, lastOp.new))
        /\ Len(lastOp.calls) <= Len(Declared(strategy, lastOp.new))
        /\ (\A i \in 1..Len(lastOp.calls) : lastOp.calls[i].ok) =>
               IsPerm(DeclsOf(lastOp.calls), Declared(strategy, lastOp.new))

\* a Create of a CNAME resource that declares no target has issued an add call
C32_Witness ==
    /\ lastOp.op = "Create"
    /\ strategy = "CNAME"
    /\ Declared(strategy, lastOp.new) = <<>>
    /\ Len(lastOp.calls) = 1
    /\ lastOp.calls[1].op = "add"
    /\ lastOp.calls[1].ok

\* s ends with one dot and no more
EndsWithOneDot(s) ==
    /\ Len(s) >= 1
    /\ s[Len(s)] = Dot
    /\ Len(s) >= 2 => s[Len(s) - 1] /= Dot

\* C33: every host name sent to the provider in an add or remove call of an MX, NS or
\* CNAME record or as an SRV target ends with exactly one trailing dot, whether or
\* not the declared value ends with a dot.
C33_SentHostsEndWithOneDot ==
    (lastOp.op \in {"Create", "Update", "Delete"} /\ strategy \in {"MX", "NS", "CNAME", "SRV"}) =>
        \A i \in 1..Len(lastOp.calls) : EndsWithOneDot(lastOp.calls[i].rec.Content)

\* a Create of an SRV resource has sent a declared target without its dot, and one
\* declared with a dot as it is
C33_Witness ==
    /\ lastOp.op = "Create"
    /\ strategy = "SRV"
    /\ ~lastOp.err
    /\ \E i \in 1..Len(lastOp.calls) :
          /\ lastOp.calls[i].decl.Target = HostA
          /\ lastOp.calls[i].rec.Content = HostA
    /\ \E i \in 1..Len(lastOp.calls) :
          /\ lastOp.calls[i].decl.Target = HostADot
          /\ lastOp.calls[i].rec.Content = HostADot

-----------------------------------------------------------------------------
(* The order of the provider's listing.                                    *)

\* the CNAME records the provider holds for the name of the resource
CNAMEsHeld(prov) == {r \in prov : r.Rectype = "CNAME" /\ r.Subname = NameN}

\* the orders in which the records of S can be listed
ListingsOf(S) ==
    {s \in [1..Cardinality(S) -> S] : \A i, j \in 1..Cardinality(S) : s[i] = s[j] => i = j}

\* the Read of the resource from the listing rrs of its zone, as a hit of the cache
\* serves it, and what the host keeps of it
ReadListing(rrs) ==
    LET entry == [Data |-> [Dname |-> ZoneZ, Rrs |-> rrs], Timestamp |-> now, TTL |-> TTL]
        x == [prov |-> provider, cache |-> [z \in {ZoneZ} |-> entry], calls |-> <<>>,
              trace |-> <<>>, err |-> FALSE]
    IN  SaveState("Read", ReadOf(strategy, x, [id |-> lastOp.idBefore, cfg |-> lastOp.old],
                                 now, [ok |-> TRUE, rev |-> FALSE]))

\* the Read that ran last got its listing from the provider
ReadFetched ==
    /\ lastOp.op = "Read"
    /\ ~lastOp.err
    /\ "fetch" \in Range(lastOp.trace)

\* C34: the resource state written by Read depends only on the records the provider
\* holds for the resource, not on the order in which it lists them: the state a Read
\* has written from a fetched listing is the state a Read writes from the same
\* records listed in any order, before or after the records of other names.
C34_ReadIgnoresListingOrder ==
    ReadFetched =>
        \A own \in ListingsOf(provider) :
            /\ ReadListing(own \o OtherRecords) = d
            /\ ReadListing(OtherRecords \o own) = d

\* a Read of a CNAME resource whose name holds two CNAME records has written what
\* the first listed record gives; another order of the listing gives another state
C34_Witness ==
    /\ ReadFetched
    /\ strategy = "CNAME"
    /\ Cardinality(CNAMEsHeld(provider)) = 2
    /\ \E own \in ListingsOf(provider) : ReadListing(own \o OtherRecords) /= d

-----------------------------------------------------------------------------
\* C35: in every Update all provider remove calls are issued before the first add
\* call; the CNAME Update removes the old target before it adds the new one, so that
\* an Update never makes the provider hold two CNAME records for one (zone, name).
C35_RemovesBeforeAdds ==
    lastOp.op = "Update" =>
        /\ \A i, j \in 1..Len(lastOp.calls) :
              (lastOp.calls[i].op = "add" /\ lastOp.calls[j].op = "remove") => j < i
        /\ (strategy = "CNAME" /\ Cardinality(CNAMEsHeld(lastOp.provBefore)) <= 1)
              => Cardinality(CNAMEsHeld(provider)) <= 1

\* a CNAME Update of a resource without a declared target has added the new target
\* beside the record the provider held
C35_Witness ==
    /\ lastOp.op = "Update"
    /\ strategy = "CNAME"
    /\ ~lastOp.err
    /\ lastOp.old = <<>>
    /\ Cardinality(CNAMEsHeld(lastOp.provBefore)) = 1
    /\ Len(lastOp.calls) = 1
    /\ lastOp.calls[1].op = "add"
    /\ Cardinality(CNAMEsHeld(provider)) = 2

-----------------------------------------------------------------------------
\* C36: if a provider add call fails during Create, Create returns an error and the
\* identifier of the resource stays empty (the resource remains Absent), also when
\* earlier add calls of the same Create have succeeded.
C36_FailedCreateStaysAbsent ==
    (lastOp.op = "Create" /\ \E i \in 1..Len(lastOp.calls) : ~lastOp.calls[i].ok) =>
        /\ lastOp.err
        /\ d.id = <<>>
        /\ d = NoD

\* a Create whose first add succeeded and whose second failed: the provider holds the
\* first record and the resource has no identifier
C36_Witness ==
    /\ lastOp.op = "Create"
    /\ Len(lastOp.calls) = 2
    /\ lastOp.calls[1].ok
    /\ ~lastOp.calls[2].ok
    /\ lastOp.calls[1].rec \in provider
    /\ lastOp.calls[1].rec \notin lastOp.provBefore
    /\ lastOp.err
    /\ d.id = <<>>

-----------------------------------------------------------------------------
\* the records the provider holds under the name of the resource with its type
HeldOfResource(prov) == {r \in prov : r.Subname = NameN /\ r.Rectype = strategy}

\* a Delete returns with success, and the handler before it was a Create or an
\* Update that returned with success and left the resource Present; nothing but the
\* handlers of the resource writes to the provider
DeleteAfterWrite ==
    /\ lastOp.op \in {"Create", "Update"}
    /\ ~lastOp.err
    /\ d.id /= <<>>
    /\ nops' = nops + 1
    /\ lastOp'.op = "Delete"
    /\ ~lastOp'.err

\* C37: after a successful Delete that follows a successful Create or Update, with no
\* change made out of band, the provider holds none of the resource's records for
\* its (zone, name, type), the Delete has issued no provider add call, and the
\* resource is Absent.
C37_DeleteLeavesNothing ==
    [][DeleteAfterWrite =>
          /\ HeldOfResource(provider') = {}
          /\ \A i \in 1..Len(lastOp'.calls) : lastOp'.calls[i].op = "remove"
          /\ d' = NoD]_vars

\* a Delete of an SRV resource has returned with success and the provider still holds
\* a record of the resource, one whose target was declared with a dot
C37_Witness ==
    /\ lastOp.op = "Delete"
    /\ ~lastOp.err
    /\ strategy = "SRV"
    /\ d = NoD
    /\ lastOp.calls /= <<>>
    /\ \A i \in 1..Len(lastOp.calls) : lastOp.calls[i].ok
    /\ \E r \in HeldOfResource(provider) : r.Content = HostADot

-----------------------------------------------------------------------------
(* Locks and termination of the calls of the cached client.                 *)

\* the steps of goroutine t inside a call
ThreadStep(t) ==
    \/ GlobalRLock(t) \/ ZcRLock(t) \/ Lookup(t) \/ DeleteExpired(t) \/ ZcRUnlock(t)
    \/ GlobalRUnlock(t) \/ Fetch(t) \/ GlobalLock(t) \/ ZcLock(t) \/ StoreFetched(t)
    \/ DropZone(t) \/ DropAll(t) \/ ZcUnlock(t) \/ GlobalUnlock(t)

\* SpecConc with a scheduler that lets every goroutine run: a step of a call that
\* stays possible is taken, and so a provider fetch returns
SpecConcFair == SpecConc /\ \A t \in Threads : WF_vars(ThreadStep(t))

\* the positions of a call at which it holds no lock: before its first lock, during
\* the provider fetch and before the lock that follows it, and at its return
LockFreePcs == {"idle", "g_rlock", "fetch", "g_lock", "done"}

\* a goroutine holds the mutex of the cache only inside the global mutex, and no
\* lock at a lock-free position
LockDiscipline ==
    \A t \in Threads :
        /\ Holds(mu.zc, t) => Holds(mu.global, t)
        /\ threads[t].pc \in LockFreePcs => (~Holds(mu.global, t) /\ ~Holds(mu.zc, t))
        /\ threads[t].pc \in {"zc_rlock", "zc_lock", "g_runlock", "g_unlock"} =>
               (Holds(mu.global, t) /\ ~Holds(mu.zc, t))

\* goroutine t waits for a lock that another goroutine holds
Waiting(t) ==
    \/ threads[t].pc = "g_rlock" /\ ~CanRLock(mu.global)
    \/ threads[t].pc = "zc_rlock" /\ ~CanRLock(mu.zc)
    \/ threads[t].pc = "g_lock" /\ ~CanLock(mu.global)
    \/ threads[t].pc = "zc_lock" /\ ~CanLock(mu.zc)

\* some call is in progress and every call in progress waits for a lock
Deadlocked == (\E t \in Threads : InCall(t)) /\ \A t \in Threads : InCall(t) => Waiting(t)

\* C38: under any interleaving of concurrent GetRecordsWithCache, InvalidateZoneCache
\* and ClearZoneCache calls the locks are taken in the order global mutex, cache
\* mutex, every lock is released before the call returns or starts a provider
\* fetch, no deadlock is reachable, and every call returns.
C38_LockOrderAndTermination ==
    /\ [](LockDiscipline /\ ~Deadlocked)
    /\ \A t \in Threads : (InCall(t) ~> threads[t].pc = "done")

\* the runtime has stopped the process while two calls of GetRecordsWithCache were in
\* ZoneCache.Get with the read locks held; neither returns
C38_Witness ==
    /\ fatal
    /\ \A t \in Threads : threads[t].op = "GetRecordsWithCache" /\ InCall(t)
    /\ \A t \in Threads : t \in mu.global.r /\ t \in mu.zc.r

\* the same without the stop of the process: the locks and the return of every call
\* that the runtime lets run
LocksAndTerminationUnlessFatal ==
    /\ [](LockDiscipline /\ ~Deadlocked)
    /\ \A t \in Threads : (InCall(t) ~> (threads[t].pc = "done" \/ fatal))

====
